---------------------------- MODULE Spec2Model ----------------------------
(***************************************************************************)
(* A model of TelegramMinter's concurrent core:                            *)
(*   - the per-wallet transaction queue and the wallet managers            *)
(*     (internal/client/ton_client.go): the queue (SpecWallet), the        *)
(*     creation of managers and queues step by step (SpecRegistry), one    *)
(*     payment from the padded amount of BuyStickersAndPay through         *)
(*     processTransaction with the chain (SpecTxn),                        *)
(*   - the buyer service with its account workers (internal/service,       *)
(*     latest revision: unnamed/part_005) (SpecOrch),                      *)
(*   - the configuration check of the CLI (cmd/stickersbot) (SpecCli),     *)
(*   - the token manager (internal/service/token_manager.go) (SpecTokens), *)
(*   - one purchase cycle of a worker with its token refreshes (SpecBuy),  *)
(*   - the snipe monitor (internal/monitor/snipe_monitor.go) (SpecMon).    *)
(* Each part has its own specification; the variables of the other parts   *)
(* stay at their idle values.                                              *)
(***************************************************************************)
EXTENDS Integers, Sequences, FiniteSets, TLC

(***************************************************************************)
(* Bounds of the model.                                                    *)
(***************************************************************************)
\* callers of TONClient.SendTON (workers of any account)
NumCallers == 3
\* stands for the queue channel's buffer of 100 requests
QueueCap == 2
\* the largest number of worker threads of an account (config: threads)
MaxThreads == 2
\* the largest transaction ceiling of an account (config: max_transactions)
MaxCeiling == 2
\* successful payments of an account without a ceiling that are explored
MaxPayments == 2
\* purchase cycles of one worker that are followed
MaxCycles == 2
\* the intents counted for one sub-item (the counter saturates there)
MaxIntents == 3

\* the largest value the wallet's seqno takes on the chain
MaxSeqno == 3
\* the iterations of processTransaction's confirmation loop
ConfirmPolls == 60

\* goroutines that call the token manager (workers, monitors)
NumTokCallers == 2
\* calls of the token manager each of them makes
MaxTokCalls == 2
\* the tokens of an account: the configured one and those the authorization issues
MaxTokens == 2
\* runs of the preventive refresh
MaxSweeps == 1

VARIABLES
    \* ---- wallet managers and transaction queues (ton_client.go) ----
    managers,     \* globalWalletManagers: the WalletManagerKeys that have a manager
    queues,       \* WalletManager.queues: the created queues, as <<key, seedPhrase>>
    qchan,        \* TransactionQueue.queue: the buffered channel of each queue
    qpc,          \* position of each queue's processQueue goroutine
    qcur,         \* the request processQueue is working on (0: none)
    qclosed,      \* tq.ctx is cancelled (Close was called)
    cpc,          \* position of each caller
    cqueue,       \* TONClient.queue of each caller's client
    cresultChan,  \* req.ResultChan of each caller's request: "empty", "ok", "fail"
    cresult       \* what SendTON returned to the caller: "none", "ok", "fail"

walletVars == <<managers, queues, qchan, qpc, qcur, qclosed,
                cpc, cqueue, cresultChan, cresult>>

VARIABLES
    \* ---- buyer service (service/buyer.go, latest revision) ----
    cfgSnipe,        \* config: account.SnipeMonitor != nil && Enabled
    cfgThreads,      \* config: account.Threads
    cfgMax,          \* config: account.MaxTransactions (0: no ceiling)
    started,         \* Start has been called
    isRunning,       \* bs.isRunning
    isStopping,      \* bs.isStopping
    ctxCancelled,    \* the context Start created is cancelled
    muHolder,        \* who holds bs.mu across steps: "free" or "stop"
    aaHolder,        \* who holds bs.activeAccountsMu across steps: NoThread or a thread
    activeAccounts,  \* bs.activeAccounts: "none" (no entry), "active", "inactive"
    tpc,             \* position of each worker / monitor goroutine
    txCount,         \* AccountWorker.transactionCount
    wActive,         \* AccountWorker.isActive
    snipeCount,      \* bs.snipeTransactionCounters
    monCancelled,    \* SnipeMonitor.ctx is cancelled
    monListed,       \* the monitor is in bs.snipeMonitors
    gpc,             \* position of the goroutine setAccountInactive starts
    wgpc,            \* position of the goroutine of Start that waits on wg
    spc              \* position of the caller of Stop

orchVars == <<cfgSnipe, cfgThreads, cfgMax, started, isRunning, isStopping,
              ctxCancelled, muHolder, aaHolder, activeAccounts, tpc, txCount,
              wActive, snipeCount, monCancelled, monListed, gpc, wgpc, spc>>

VARIABLES
    \* ---- one purchase cycle of a worker (performAccountBuy) ----
    bpc,          \* position of the worker in performAccountBuy
    resp,         \* the response the cycle currently works with
    calls,        \* outcomes of the purchase calls of this cycle, in order
    refreshes,    \* token refreshes via Telegram started in this cycle
    statistics,   \* bs.statistics
    cycles        \* purchase cycles begun

buyVars == <<bpc, resp, calls, refreshes, statistics, cycles>>

VARIABLES
    \* ---- snipe monitor of one account (monitor/snipe_monitor.go) ----
    monConfig,         \* config.SnipeMonitor: WordFilter, SupplyRange, PriceRange
    srvCollections,    \* the collections the catalog endpoint lists at present
    srvCharacters,     \* the characters the detail endpoint lists at present
    knownCollections,  \* s.knownCollections
    knownCharacters,   \* s.knownCharacters, keys as <<collectionID, characterID>>
    mpc,               \* position of the monitor: "idle", "wait", "poll", "exited"
    phase,             \* position inside checkForNewItems
    pollTodo,          \* collections of the fetched list still to be looked at
    charTodo,          \* characters of the fetched details still to be looked at
    monCtxDone,        \* s.ctx is cancelled (Stop was called)
    intentCount,       \* purchaseCallback calls made per character key
    startPresent,      \* characters of the listed collections when Start fetched
    startFetched       \* characters whose details Start fetched

monVars == <<monConfig, srvCollections, srvCharacters, knownCollections,
             knownCharacters, mpc, phase, pollTodo, charTodo, monCtxDone,
             intentCount, startPresent, startFetched>>

VARIABLES
    \* ---- getWalletManager / getOrCreateQueue step by step (ton_client.go) ----
    registry,     \* the two maps with their instances, and each caller's position
    \* ---- the order of the requests of each queue ----
    order,        \* accepted: as AddTransaction enqueued; begun: as processQueue took
    \* ---- one processTransaction with its confirmation wait ----
    txn,
    \* ---- TokenManager (service/token_manager.go) ----
    tokens,
    \* ---- the CLI's configuration check and the start of the accounts ----
    cli,
    \* ---- what one run of the monitor's checkForNewItems has done ----
    watch,
    \* ---- BuyerService over several calls of Start and Stop (part_005) ----
    service

vars == <<walletVars, orchVars, buyVars, monVars, registry, order, txn, tokens, cli, watch, service>>

(***************************************************************************)
(* Wallet managers and transaction queues.                                 *)
(***************************************************************************)
Callers == 1..NumCallers
\* WalletManagerKey{UseProxy, ProxyURL}: no proxy, or one proxy URL
ManagerKeys == {"direct", "proxy"}
SeedPhrases == {"seedA"}
QueueIds == ManagerKeys \X SeedPhrases
NoQueue == <<"none", "none">>

\* the wallet (on-chain address) a queue signs for is derived from its seed
WalletOf(q) == q[2]

\* getWalletManager: one manager per WalletManagerKey, created under managersMu
GetWalletManager(key) == managers \cup {key}

\* NewTONClientWithProxy: getWalletManager(useProxy, proxyURL), then
\* wm.getOrCreateQueue(seedPhrase); a new queue starts its processQueue goroutine
NewTONClientWithProxy(c, seed, key) ==
    LET q == <<key, seed>> IN
    /\ cpc[c] = "new"
    /\ managers' = GetWalletManager(key)
    /\ queues' = queues \cup {q}
    /\ qpc' = IF q \in queues THEN qpc ELSE [qpc EXCEPT ![q] = "idle"]
    /\ cqueue' = [cqueue EXCEPT ![c] = q]
    /\ cpc' = [cpc EXCEPT ![c] = "client"]
    /\ UNCHANGED <<qchan, qcur, qclosed, cresultChan, cresult>>
    /\ UNCHANGED <<orchVars, buyVars, monVars, registry, order, txn, tokens, cli, watch, service>>

\* AddTransaction, first case of the select: the request enters the channel
AddTransactionEnqueue(c) ==
    LET q == cqueue[c] IN
    /\ cpc[c] = "client"
    /\ Len(qchan[q]) < QueueCap
    /\ qchan' = [qchan EXCEPT ![q] = Append(@, c)]
    /\ cpc' = [cpc EXCEPT ![c] = "waiting"]
    /\ order' = [order EXCEPT !.accepted[q] = Append(@, c)]
    /\ UNCHANGED <<managers, queues, qpc, qcur, qclosed, cqueue, cresultChan, cresult>>
    /\ UNCHANGED <<orchVars, buyVars, monVars, registry, txn, tokens, cli, watch, service>>

\* a result with Success: true
SuccessResult == "ok"

\* AddTransaction, case <-time.After(5 * time.Second): the result that is
\* returned has Success: false
TimeoutResult == "fail"

\* a select that takes another case than the send leaves the request unsent,
\* whatever room the channel has by then
SentAfterAll(ch, req) == Append(ch, req)

\* the channel after a select whose case tq.queue <- req was not taken
NotSent(ch, req) == ch

\* AddTransaction, second case: the channel stayed full for 5 seconds
AddTransactionTimeout(c) ==
    LET q == cqueue[c] IN
    /\ cpc[c] = "client"
    /\ Len(qchan[q]) >= QueueCap
    /\ qchan' = [qchan EXCEPT ![q] = NotSent(@, c)]
    /\ cresult' = [cresult EXCEPT ![c] = TimeoutResult]
    /\ cpc' = [cpc EXCEPT ![c] = "done"]
    /\ order' = [order EXCEPT !.gaveUp = @ \cup {c}]
    /\ UNCHANGED <<managers, queues, qpc, qcur, qclosed, cqueue, cresultChan>>
    /\ UNCHANGED <<orchVars, buyVars, monVars, registry, txn, tokens, cli, watch, service>>

\* AddTransaction: result := <-resultChan
AddTransactionReceive(c) ==
    /\ cpc[c] = "waiting"
    /\ cresultChan[c] # "empty"
    /\ cresult' = [cresult EXCEPT ![c] = cresultChan[c]]
    /\ cresultChan' = [cresultChan EXCEPT ![c] = "empty"]
    /\ cpc' = [cpc EXCEPT ![c] = "done"]
    /\ UNCHANGED <<managers, queues, qchan, qpc, qcur, qclosed, cqueue>>
    /\ UNCHANGED <<orchVars, buyVars, monVars, registry, order, txn, tokens, cli, watch, service>>

\* a receive that yields the value that was sent last
LastRequest(ch) == ch[Len(ch)]

\* a receive from a Go channel yields the value that was sent first
NextRequest(ch) == Head(ch)

\* processQueue: case req := <-tq.queue, then processTransaction locks tq.mu
ProcessQueueTake(q) ==
    /\ qpc[q] = "idle"
    /\ qchan[q] # <<>>
    /\ qcur' = [qcur EXCEPT ![q] = NextRequest(qchan[q])]
    /\ qchan' = [qchan EXCEPT ![q] = Tail(@)]
    /\ qpc' = [qpc EXCEPT ![q] = "processing"]
    /\ order' = [order EXCEPT !.begun[q] = Append(@, NextRequest(qchan[q]))]
    /\ UNCHANGED <<managers, queues, qclosed, cpc, cqueue, cresultChan, cresult>>
    /\ UNCHANGED <<orchVars, buyVars, monVars, registry, txn, tokens, cli, watch, service>>

\* processQueue: case <-tq.ctx.Done(): return (a select with both cases ready
\* takes either)
ProcessQueueExit(q) ==
    /\ qpc[q] = "idle"
    /\ qclosed[q]
    /\ qpc' = [qpc EXCEPT ![q] = "exited"]
    /\ UNCHANGED <<managers, queues, qchan, qcur, qclosed, cpc, cqueue, cresultChan, cresult>>
    /\ UNCHANGED <<orchVars, buyVars, monVars, registry, order, txn, tokens, cli, watch, service>>

\* req.ResultChan <- result (the channel has room for one result)
Deliver(q, res) ==
    /\ cresultChan' = [cresultChan EXCEPT ![qcur[q]] = res]
    /\ qcur' = [qcur EXCEPT ![q] = 0]
    /\ qpc' = [qpc EXCEPT ![q] = "idle"]

\* processTransaction: the address does not parse, getSeqno fails or
\* wallet.Transfer fails: a failed result, nothing is awaited
ProcessTransactionFail(q) ==
    /\ qpc[q] = "processing"
    /\ Deliver(q, "fail")
    /\ UNCHANGED <<managers, queues, qchan, qclosed, cpc, cqueue, cresult>>
    /\ UNCHANGED <<orchVars, buyVars, monVars, registry, order, txn, tokens, cli, watch, service>>

\* processTransaction: wallet.Transfer succeeded, the confirmation wait starts
ProcessTransactionBroadcast(q) ==
    /\ qpc[q] = "processing"
    /\ qpc' = [qpc EXCEPT ![q] = "polling"]
    /\ UNCHANGED <<managers, queues, qchan, qcur, qclosed, cpc, cqueue, cresultChan, cresult>>
    /\ UNCHANGED <<orchVars, buyVars, monVars, registry, order, txn, tokens, cli, watch, service>>

\* processTransaction: the seqno advanced (confirmed) or 60 polls passed
ProcessTransactionFinish(q, confirmed) ==
    /\ qpc[q] = "polling"
    /\ Deliver(q, IF confirmed THEN "ok" ELSE "fail")
    /\ UNCHANGED <<managers, queues, qchan, qclosed, cpc, cqueue, cresult>>
    /\ UNCHANGED <<orchVars, buyVars, monVars, registry, order, txn, tokens, cli, watch, service>>

\* TransactionQueue.Close: tq.cancel()
Close(q) ==
    /\ q \in queues
    /\ ~qclosed[q]
    /\ qclosed' = [qclosed EXCEPT ![q] = TRUE]
    /\ UNCHANGED <<managers, queues, qchan, qpc, qcur, cpc, cqueue, cresultChan, cresult>>
    /\ UNCHANGED <<orchVars, buyVars, monVars, registry, order, txn, tokens, cli, watch, service>>

NextWallet ==
    \/ \E c \in Callers, s \in SeedPhrases, k \in ManagerKeys : NewTONClientWithProxy(c, s, k)
    \/ \E c \in Callers : AddTransactionEnqueue(c)
    \/ \E c \in Callers : AddTransactionTimeout(c)
    \/ \E c \in Callers : AddTransactionReceive(c)
    \/ \E q \in QueueIds : ProcessQueueTake(q)
    \/ \E q \in QueueIds : ProcessQueueExit(q)
    \/ \E q \in QueueIds : ProcessTransactionFail(q)
    \/ \E q \in QueueIds : ProcessTransactionBroadcast(q)
    \/ \E q \in QueueIds, ok \in BOOLEAN : ProcessTransactionFinish(q, ok)
    \/ \E q \in QueueIds : Close(q)

(***************************************************************************)
(* getWalletManager and getOrCreateQueue step by step: the read-locked     *)
(* look-up, the write-locked second look-up and the creation.              *)
(***************************************************************************)
\* seed phrases a client is asked for: NewTransactionQueue rejects a phrase
\* that has not 24 words or that wallet.FromSeed refuses
RegSeeds == SeedPhrases \cup {"badSeed"}
ValidSeed(seed) == seed \in SeedPhrases
RegQueueIds == ManagerKeys \X RegSeeds

\* a second look-up that never finds the entry
AlwaysMissing(entry) == TRUE

\* the second look-up, made under the write lock: is the entry still missing
\* (instances are numbered from 1, 0 stands for no entry)
StillMissing(entry) == entry = 0

\* NewTONClientWithProxy calls getWalletManager: managersMu.RLock, look-up,
\* RUnlock; a missing manager sends the caller to the write lock
GetWalletManagerFast(c, key, seed) ==
    /\ ~registry.panicked
    /\ registry.pc[c] = "new"
    /\ registry' = [registry EXCEPT
                      !.key[c] = key,
                      !.seed[c] = seed,
                      !.mgr[c] = registry.managerOf[key],
                      !.pc[c] = IF registry.managerOf[key] # 0 THEN "qRLock" ELSE "mLock"]
    /\ UNCHANGED <<walletVars, orchVars, buyVars, monVars, order, txn, tokens, cli, watch, service>>

\* getWalletManager: managersMu.Lock, the second look-up, createWalletManager
\* and the insertion; createWalletManager panics when
\* AddConnectionsFromConfigUrl fails, and nothing recovers the panic
GetWalletManagerSlow(c, connected) ==
    LET key == registry.key[c]
        made == registry.managersMade[key] + 1 IN
    /\ ~registry.panicked
    /\ registry.pc[c] = "mLock"
    /\ IF ~StillMissing(registry.managerOf[key])
       THEN /\ connected
            /\ registry' = [registry EXCEPT
                              !.mgr[c] = registry.managerOf[key],
                              !.raced = @ \cup {c},
                              !.pc[c] = "qRLock"]
       ELSE IF connected
       THEN registry' = [registry EXCEPT
                           !.managersMade[key] = made,
                           !.managerOf[key] = made,
                           !.mgr[c] = made,
                           !.pc[c] = "qRLock"]
       ELSE registry' = [registry EXCEPT !.panicked = TRUE]
    /\ UNCHANGED <<walletVars, orchVars, buyVars, monVars, order, txn, tokens, cli, watch, service>>

\* wm.getOrCreateQueue: wm.mu.RLock, look-up, RUnlock
GetOrCreateQueueFast(c) ==
    LET q == <<registry.key[c], registry.seed[c]>> IN
    /\ ~registry.panicked
    /\ registry.pc[c] = "qRLock"
    /\ registry' = [registry EXCEPT
                      !.queue[c] = registry.queueOf[q],
                      !.pc[c] = IF registry.queueOf[q] # 0 THEN "done" ELSE "qLock"]
    /\ UNCHANGED <<walletVars, orchVars, buyVars, monVars, order, txn, tokens, cli, watch, service>>

\* wm.getOrCreateQueue: wm.mu.Lock, the second look-up, NewTransactionQueue
\* (which starts processQueue) and the insertion; an error of
\* NewTransactionQueue is returned and nothing is inserted
GetOrCreateQueueSlow(c) ==
    LET q == <<registry.key[c], registry.seed[c]>>
        made == registry.queuesMade[q] + 1 IN
    /\ ~registry.panicked
    /\ registry.pc[c] = "qLock"
    /\ IF ~StillMissing(registry.queueOf[q])
       THEN registry' = [registry EXCEPT
                           !.queue[c] = registry.queueOf[q],
                           !.raced = @ \cup {c},
                           !.pc[c] = "done"]
       ELSE IF ValidSeed(registry.seed[c])
       THEN registry' = [registry EXCEPT
                           !.queuesMade[q] = made,
                           !.queueOf[q] = made,
                           !.queue[c] = made,
                           !.pc[c] = "done"]
       ELSE registry' = [registry EXCEPT !.pc[c] = "failed"]
    /\ UNCHANGED <<walletVars, orchVars, buyVars, monVars, order, txn, tokens, cli, watch, service>>

NextRegistry ==
    \/ \E c \in Callers, k \in ManagerKeys, s \in RegSeeds : GetWalletManagerFast(c, k, s)
    \/ \E c \in Callers, connected \in BOOLEAN : GetWalletManagerSlow(c, connected)
    \/ \E c \in Callers : GetOrCreateQueueFast(c)
    \/ \E c \in Callers : GetOrCreateQueueSlow(c)

(***************************************************************************)
(* One processTransaction in detail: getSeqno with the deployment of the   *)
(* wallet, the transfer, the confirmation loop, and the chain.             *)
(***************************************************************************)
\* how a call of getSeqno goes: "ok": RunGetMethod answers; "error":
\* CurrentMasterchainInfo or RunGetMethod fails otherwise; "inactive":
\* RunGetMethod fails with "account not found", "contract not found",
\* "account is not active" or "exit code", and deployWalletIfNeeded runs
SeqnoReads == {"ok", "error", "inactive"}
\* how deployWalletIfNeeded goes: the balance is below 0.05 TON; the
\* self-transfer is not sent; it is sent but the seqno stays unreadable for
\* 60 polls; the seqno becomes readable
Deployments == {"insufficient", "sendError", "timeout", "deployed"}

\* deployWalletIfNeeded: minDeployAmount := big.NewInt(50000000), in nanotons
MinDeployAmount == 50000000
\* the balances of the model, around the minimum
Balances == {MinDeployAmount - 1, MinDeployAmount, MinDeployAmount + 1}

\* a deployment that asks for no balance
AnyBalance(balanceNano) == TRUE

\* deployWalletIfNeeded: balanceNano.Cmp(minDeployAmount) < 0 is the error
\* "insufficient funds"; otherwise the self-transfer is sent
HasReserve(balanceNano) == ~(balanceNano < MinDeployAmount)

\* amounts in nanotons are written in two limbs to the base 10^9, so that
\* hi is in TON and lo the nanotons below one TON, with the sign of an int64
Giga == 1000000000
Amount(neg, hi, lo) == [neg |-> neg, hi |-> hi, lo |-> lo]
\* the quotes of the purchase API in the model: the 25.05 TON of the happy
\* path, nothing, one nanoton, and one whose padding carries into the TON
Quotes == {Amount(FALSE, 25, 50000000), Amount(FALSE, 0, 0),
           Amount(FALSE, 0, 1), Amount(FALSE, 1, 900000000)}

\* BuyStickersAndPay: the 0.25 TON added to response.TotalAmount
FeeBuffer == 250000000

\* a caller that submits the quoted amount as it is
AmountWithoutFee(a) == a

\* BuyStickersAndPay: amountWithFee := response.TotalAmount + 250000000
\* (int64; the amounts of the model are far from its ends)
AmountWithFee(a) ==
    IF ~a.neg
    THEN LET sum == a.lo + FeeBuffer IN
         Amount(FALSE, a.hi + (sum \div Giga), sum % Giga)
    ELSE IF a.hi = 0 /\ a.lo <= FeeBuffer
    THEN Amount(FALSE, 0, FeeBuffer - a.lo)
    ELSE IF a.lo >= FeeBuffer
    THEN Amount(TRUE, a.hi, a.lo - FeeBuffer)
    ELSE Amount(TRUE, a.hi - 1, a.lo + Giga - FeeBuffer)

\* processTransaction: uint64(req.Amount), in three limbs to the base 10^9: a
\* non-negative int64 keeps its value, a negative one becomes 2^64 - |a|
\* (2^64 = 18 446744073 709551616)
ToUint64(a) ==
    IF ~a.neg THEN <<0, a.hi, a.lo>>
    ELSE LET lo == 709551616 - a.lo
             b1 == IF lo < 0 THEN 1 ELSE 0
             hi == 446744073 - a.hi - b1
             b2 == IF hi < 0 THEN 1 ELSE 0 IN
         <<18 - b2, hi + b2 * Giga, lo + b1 * Giga>>

\* the messages sent by a failing or succeeding deployment
DeploySends(deploy) == IF deploy \in {"timeout", "deployed"} THEN 1 ELSE 0

\* getSeqno as a whole, from the chain state in t: err, the value returned,
\* the chain state it leaves, and whether a deployment was tried and failed
GetSeqno(t, read, deploy) ==
    IF read = "ok"
    THEN [err |-> FALSE, value |-> t.seqno, seqno |-> t.seqno, pending |-> t.pending,
          readable |-> t.readable, deployFailed |-> FALSE]
    ELSE IF read = "error"
    THEN [err |-> TRUE, value |-> 0, seqno |-> t.seqno, pending |-> t.pending,
          readable |-> t.readable, deployFailed |-> FALSE]
    ELSE IF deploy = "deployed"
    THEN \* an inactive wallet becomes active when the self-transfer is included
         IF t.readable
         THEN [err |-> FALSE, value |-> t.seqno, seqno |-> t.seqno,
               pending |-> t.pending + 1, readable |-> TRUE, deployFailed |-> FALSE]
         ELSE [err |-> FALSE, value |-> t.seqno + 1, seqno |-> t.seqno + 1,
               pending |-> t.pending, readable |-> TRUE, deployFailed |-> FALSE]
    ELSE [err |-> TRUE, value |-> 0, seqno |-> t.seqno,
          pending |-> t.pending + DeploySends(deploy),
          readable |-> t.readable, deployFailed |-> TRUE]

\* the outcomes getSeqno can have in chain state t
CanRead(t, read, deploy) ==
    /\ read = "ok" => t.readable
    /\ read # "inactive" => deploy = "deployed"
    /\ read = "inactive" =>
         /\ deploy = "insufficient" <=> ~HasReserve(t.balance)
         /\ t.seqno + t.pending < MaxSeqno

\* a comparison that asks for more than the expected seqno
Exceeds(currentSeqno, expectedSeqno) == currentSeqno > expectedSeqno

\* processTransaction: currentSeqno >= expectedSeqno
Confirmed(currentSeqno, expectedSeqno) == currentSeqno >= expectedSeqno

\* what a getSeqno adds to the record of the deployments: the balances at
\* which the self-transfer was sent, and those at which it was refused
DeploySentAt(t, read, deploy) ==
    IF read = "inactive" /\ DeploySends(deploy) > 0
    THEN t.deploySentAt \cup {t.balance} ELSE t.deploySentAt
DeployRefusedAt(t, read, deploy) ==
    IF read = "inactive" /\ deploy = "insufficient"
    THEN t.refusedAt \cup {t.balance} ELSE t.refusedAt

\* BuyStickersAndPay after a successful order: the quoted amount with the
\* fee buffer is handed to SendTON, and AddTransaction puts it in the request
SubmitPayment(quoted) ==
    /\ txn.pc = "order"
    /\ txn' = [txn EXCEPT !.pc = "start", !.quoted = quoted,
                          !.amount = AmountWithFee(quoted)]
    /\ UNCHANGED <<walletVars, orchVars, buyVars, monVars, registry, order, tokens, cli, watch, service>>

\* processTransaction up to the first read: address.ParseAddr, then
\* initialSeqno, err := tq.getSeqno; an error ends it with a failed result
ReadInitialSeqno(addrOk, read, deploy) ==
    LET r == GetSeqno(txn, read, deploy) IN
    /\ txn.pc = "start"
    /\ CanRead(txn, read, deploy)
    /\ addrOk \/ (read = "ok" /\ txn.readable)
    /\ IF ~addrOk
       THEN txn' = [txn EXCEPT !.pc = "done", !.result = "fail"]
       ELSE txn' = [txn EXCEPT
                      !.seqno = r.seqno, !.pending = r.pending, !.readable = r.readable,
                      !.deployFailed = r.deployFailed,
                      !.deploySentAt = DeploySentAt(txn, read, deploy),
                      !.refusedAt = DeployRefusedAt(txn, read, deploy),
                      !.initialSeqno = r.value,
                      !.pc = IF r.err THEN "done" ELSE "transfer",
                      !.result = IF r.err THEN "fail" ELSE "none"]
    /\ UNCHANGED <<walletVars, orchVars, buyVars, monVars, registry, order, tokens, cli, watch, service>>

\* processTransaction: tq.wallet.Transfer of uint64(req.Amount), with its
\* 10 s limit
Transfer(sent) ==
    /\ txn.pc = "transfer"
    /\ sent => txn.seqno + txn.pending < MaxSeqno
    /\ txn' = IF sent
              THEN [txn EXCEPT !.pending = @ + 1, !.pc = "poll",
                               !.broadcast = @ \cup {ToUint64(txn.amount)},
                               !.own = "pending"]
              ELSE [txn EXCEPT !.pc = "done", !.result = "fail"]
    /\ UNCHANGED <<walletVars, orchVars, buyVars, monVars, registry, order, tokens, cli, watch, service>>

\* one iteration of the confirmation loop: a second of sleep, getSeqno, an
\* error is passed over (continue); the loop ends when confirmed or after its
\* last iteration
PollSeqno(read, deploy) ==
    LET r == GetSeqno(txn, read, deploy)
        confirmed == ~r.err /\ Confirmed(r.value, txn.initialSeqno + 1)
        last == txn.polls + 1 = ConfirmPolls IN
    /\ txn.pc = "poll"
    /\ txn.polls < ConfirmPolls
    /\ CanRead(txn, read, deploy)
    /\ txn' = [txn EXCEPT
                 !.seqno = r.seqno, !.pending = r.pending, !.readable = r.readable,
                 !.deployFailed = @ \/ r.deployFailed,
                 !.deploySentAt = DeploySentAt(txn, read, deploy),
                 !.refusedAt = DeployRefusedAt(txn, read, deploy),
                 !.polls = @ + 1,
                 !.advanceSeen = @ \/ (~r.err /\ r.value > txn.initialSeqno),
                 !.pc = IF confirmed \/ last THEN "done" ELSE "poll",
                 !.result = IF confirmed THEN "ok" ELSE IF last THEN "fail" ELSE "none"]
    /\ UNCHANGED <<walletVars, orchVars, buyVars, monVars, registry, order, tokens, cli, watch, service>>

\* the messages of the wallet that were sent and are not yet included, other
\* than the transfer of the payment itself
OtherPending(t) == t.pending - (IF t.own = "pending" THEN 1 ELSE 0)

\* the chain includes a message of the wallet that was sent, the transfer of
\* the payment (mine) or another one: the seqno advances; the amount may
\* take the balance below the deployment minimum
ChainInclude(left, mine) ==
    /\ txn.pc \notin {"order", "done"}
    /\ txn.pending > 0
    /\ left <= txn.balance
    /\ IF mine THEN txn.own = "pending" ELSE OtherPending(txn) > 0
    /\ txn' = [txn EXCEPT !.seqno = @ + 1, !.pending = @ - 1, !.readable = TRUE,
                          !.balance = left,
                          !.own = IF mine THEN "landed" ELSE @]
    /\ UNCHANGED <<walletVars, orchVars, buyVars, monVars, registry, order, tokens, cli, watch, service>>

NextTxn ==
    \/ \E addrOk \in BOOLEAN, read \in SeqnoReads, deploy \in Deployments :
          ReadInitialSeqno(addrOk, read, deploy)
    \/ \E sent \in BOOLEAN : Transfer(sent)
    \/ \E read \in SeqnoReads, deploy \in Deployments : PollSeqno(read, deploy)
    \/ \E left \in Balances, mine \in BOOLEAN : ChainInclude(left, mine)
    \/ \E quoted \in Quotes : SubmitPayment(quoted)

(***************************************************************************)
(* Buyer service: Start, the account workers, the snipe purchases,         *)
(* setAccountInactive and Stop.                                            *)
(***************************************************************************)
Accounts == {"acc1", "acc2"}
\* goroutines of an account: <<a, 0>> is the monitor loop of a snipe account,
\* <<a, i>> with i >= 1 is the i-th accountWorker of a direct account
Threads == Accounts \X (0..MaxThreads)
NoThread == <<"none", 0>>
IsMonitor(t) == t[2] = 0
WorkersOf(a) == {t \in Threads : t[1] = a /\ t[2] >= 1 /\ t[2] <= cfgThreads[a]}
Launched(a) == IF cfgSnipe[a] THEN {<<a, 0>>} ELSE WorkersOf(a)


\* Start: under bs.mu; every account is entered active; a snipe account gets a
\* monitor (appended to bs.snipeMonitors), a direct account its worker threads;
\* a goroutine waits on the WaitGroup of the workers
Start ==
    /\ ~started
    /\ ~isRunning
    /\ muHolder = "free"
    /\ started' = TRUE
    /\ isRunning' = TRUE
    /\ ctxCancelled' = FALSE
    /\ activeAccounts' = [a \in Accounts |-> "active"]
    /\ tpc' = [t \in Threads |->
                 IF t \in Launched(t[1])
                 THEN (IF IsMonitor(t) THEN "wait" ELSE "top")
                 ELSE "none"]
    /\ monListed' = [a \in Accounts |-> cfgSnipe[a]]
    /\ wgpc' = "waiting"
    /\ UNCHANGED <<cfgSnipe, cfgThreads, cfgMax, isStopping, muHolder, aaHolder,
                   txCount, wActive, snipeCount, monCancelled, gpc, spc>>
    /\ UNCHANGED <<walletVars, buyVars, monVars, registry, order, txn, tokens, cli, watch, service>>

\* accountWorker, head of the loop: ctx.Done() ends the worker; otherwise
\* bs.isStopping (read under bs.mu) and worker.isActive are looked at
WorkerMayBuy(t) == ~isStopping /\ wActive[t]

AccountWorkerTop(t) ==
    /\ ~IsMonitor(t)
    /\ tpc[t] = "top"
    /\ \/ /\ ctxCancelled
          /\ tpc' = [tpc EXCEPT ![t] = "exited"]
       \/ /\ ~ctxCancelled
          /\ muHolder = "free"
          /\ tpc' = [tpc EXCEPT ![t] = IF WorkerMayBuy(t) THEN "buy" ELSE "exited"]
    /\ UNCHANGED <<cfgSnipe, cfgThreads, cfgMax, started, isRunning, isStopping,
                   ctxCancelled, muHolder, aaHolder, activeAccounts, txCount,
                   wActive, snipeCount, monCancelled, monListed, gpc, wgpc, spc>>
    /\ UNCHANGED <<walletVars, buyVars, monVars, registry, order, txn, tokens, cli, watch, service>>

\* the successful on-chain payments made for an account so far: the sum of
\* its workers' counters, or its snipe counter
RECURSIVE SumTx(_, _)
SumTx(a, n) == IF n = 0 THEN 0 ELSE txCount[<<a, n>>] + SumTx(a, n - 1)
Payments(a) == IF cfgSnipe[a] THEN snipeCount[a] ELSE SumTx(a, MaxThreads)

\* an account without a ceiling is followed up to MaxPayments payments
MayPay(a) == cfgMax[a] > 0 \/ Payments(a) < MaxPayments

\* where a goroutine continues after its purchase: the worker sleeps and loops,
\* the monitor goes on with its poll
AfterBuy(t) == IF IsMonitor(t) THEN "poll" ELSE "top"

\* performAccountBuy / performSnipePurchase up to the response: the purchase
\* call (makeOrderRequest counts the request under bs.mu), with the payment if
\* the order succeeded; sent is resp.TransactionSent
PerformBuy(t, sent) ==
    /\ tpc[t] = "buy"
    /\ muHolder = "free"
    /\ sent => MayPay(t[1])
    /\ tpc' = [tpc EXCEPT ![t] = IF sent THEN "count" ELSE AfterBuy(t)]
    /\ UNCHANGED <<cfgSnipe, cfgThreads, cfgMax, started, isRunning, isStopping,
                   ctxCancelled, muHolder, aaHolder, activeAccounts, txCount,
                   wActive, snipeCount, monCancelled, monListed, gpc, wgpc, spc>>
    /\ UNCHANGED <<walletVars, buyVars, monVars, registry, order, txn, tokens, cli, watch, service>>

\* performAccountBuy: the worker's own counter against the account's ceiling
WorkerLimitReached(t, count) == cfgMax[t[1]] > 0 /\ count >= cfgMax[t[1]]

\* performAccountBuy after a sent transaction: the statistics (under bs.mu),
\* then worker.transactionCount++ and the ceiling check under worker.mu
CountWorkerTransaction(t) ==
    /\ ~IsMonitor(t)
    /\ tpc[t] = "count"
    /\ muHolder = "free"
    /\ txCount' = [txCount EXCEPT ![t] = @ + 1]
    /\ IF WorkerLimitReached(t, txCount[t] + 1)
       THEN /\ wActive' = [wActive EXCEPT ![t] = FALSE]
            /\ tpc' = [tpc EXCEPT ![t] = "setInactive"]
       ELSE /\ wActive' = wActive
            /\ tpc' = [tpc EXCEPT ![t] = "top"]
    /\ UNCHANGED <<cfgSnipe, cfgThreads, cfgMax, started, isRunning, isStopping,
                   ctxCancelled, muHolder, aaHolder, activeAccounts,
                   snipeCount, monCancelled, monListed, gpc, wgpc, spc>>
    /\ UNCHANGED <<walletVars, buyVars, monVars, registry, order, txn, tokens, cli, watch, service>>

\* checkSnipeTransactionLimit: the account's snipe counter against its ceiling
SnipeLimitReached(a, count) == cfgMax[a] > 0 /\ count >= cfgMax[a]

\* performSnipePurchase after a sent transaction: incrementSnipeTransactionCounter;
\* at the ceiling the account's monitor, looked up in bs.snipeMonitors, is stopped
CountSnipeTransaction(t) ==
    /\ IsMonitor(t)
    /\ tpc[t] = "count"
    /\ muHolder = "free"
    /\ snipeCount' = [snipeCount EXCEPT ![t[1]] = @ + 1]
    /\ IF SnipeLimitReached(t[1], snipeCount[t[1]] + 1)
       THEN /\ monCancelled' = [monCancelled EXCEPT ![t[1]] = @ \/ monListed[t[1]]]
            /\ tpc' = [tpc EXCEPT ![t] = "setInactive"]
       ELSE /\ monCancelled' = monCancelled
            /\ tpc' = [tpc EXCEPT ![t] = "poll"]
    /\ UNCHANGED <<cfgSnipe, cfgThreads, cfgMax, started, isRunning, isStopping,
                   ctxCancelled, muHolder, aaHolder, activeAccounts, txCount,
                   wActive, monListed, gpc, wgpc, spc>>
    /\ UNCHANGED <<walletVars, buyVars, monVars, registry, order, txn, tokens, cli, watch, service>>

\* setAccountInactive, first part: under bs.activeAccountsMu the account's entry
\* is flipped; when no active entry is left the goroutine goes on to bs.mu with
\* bs.activeAccountsMu still held
ActiveCount(aa) == Cardinality({a \in Accounts : aa[a] = "active"})

SetAccountInactive(t) ==
    /\ tpc[t] = "setInactive"
    /\ aaHolder = NoThread
    /\ IF activeAccounts[t[1]] = "active"
       THEN /\ activeAccounts' = [activeAccounts EXCEPT ![t[1]] = "inactive"]
            /\ IF ActiveCount(activeAccounts') = 0
               THEN /\ aaHolder' = t
                    /\ tpc' = [tpc EXCEPT ![t] = "setStopping"]
               ELSE /\ aaHolder' = aaHolder
                    /\ tpc' = [tpc EXCEPT ![t] = AfterBuy(t)]
       ELSE /\ UNCHANGED <<activeAccounts, aaHolder>>
            /\ tpc' = [tpc EXCEPT ![t] = AfterBuy(t)]
    /\ UNCHANGED <<cfgSnipe, cfgThreads, cfgMax, started, isRunning, isStopping,
                   ctxCancelled, muHolder, txCount, wActive, snipeCount,
                   monCancelled, monListed, gpc, wgpc, spc>>
    /\ UNCHANGED <<walletVars, buyVars, monVars, registry, order, txn, tokens, cli, watch, service>>

\* setAccountInactive, second part: bs.isStopping = true under bs.mu, the
\* goroutine of the grace period is started, bs.activeAccountsMu is released
SetStopping(t) ==
    /\ tpc[t] = "setStopping"
    /\ muHolder = "free"
    /\ isStopping' = TRUE
    /\ gpc' = "sleeping"
    /\ aaHolder' = NoThread
    /\ tpc' = [tpc EXCEPT ![t] = AfterBuy(t)]
    /\ UNCHANGED <<cfgSnipe, cfgThreads, cfgMax, started, isRunning,
                   ctxCancelled, muHolder, activeAccounts, txCount, wActive,
                   snipeCount, monCancelled, monListed, wgpc, spc>>
    /\ UNCHANGED <<walletVars, buyVars, monVars, registry, order, txn, tokens, cli, watch, service>>

\* the goroutine of setAccountInactive after its 3 seconds: bs.isRunning = false
GraceStop ==
    /\ gpc = "sleeping"
    /\ muHolder = "free"
    /\ isRunning' = FALSE
    /\ gpc' = "cancel"
    /\ UNCHANGED <<cfgSnipe, cfgThreads, cfgMax, started, isStopping,
                   ctxCancelled, muHolder, aaHolder, activeAccounts, tpc, txCount,
                   wActive, snipeCount, monCancelled, monListed, wgpc, spc>>
    /\ UNCHANGED <<walletVars, buyVars, monVars, registry, order, txn, tokens, cli, watch, service>>

\* ... and then bs.cancel()
GraceCancel ==
    /\ gpc = "cancel"
    /\ ctxCancelled' = TRUE
    /\ gpc' = "done"
    /\ UNCHANGED <<cfgSnipe, cfgThreads, cfgMax, started, isRunning, isStopping,
                   muHolder, aaHolder, activeAccounts, tpc, txCount,
                   wActive, snipeCount, monCancelled, monListed, wgpc, spc>>
    /\ UNCHANGED <<walletVars, buyVars, monVars, registry, order, txn, tokens, cli, watch, service>>

\* the goroutine of Start: wg.Wait() returns when every accountWorker has
\* returned (at once when there is none), then bs.isRunning = false
WaitGroupDone ==
    /\ wgpc = "waiting"
    /\ \A a \in Accounts : ~cfgSnipe[a] => \A t \in WorkersOf(a) : tpc[t] = "exited"
    /\ muHolder = "free"
    /\ isRunning' = FALSE
    /\ wgpc' = "done"
    /\ UNCHANGED <<cfgSnipe, cfgThreads, cfgMax, started, isStopping,
                   ctxCancelled, muHolder, aaHolder, activeAccounts, tpc, txCount,
                   wActive, snipeCount, monCancelled, monListed, gpc, spc>>
    /\ UNCHANGED <<walletVars, buyVars, monVars, registry, order, txn, tokens, cli, watch, service>>

\* Stop, first part, under bs.mu: nothing when !bs.isRunning; otherwise
\* bs.cancel(), every monitor of bs.snipeMonitors is stopped and the list dropped
StopBegin ==
    /\ started
    /\ spc = "idle"
    /\ muHolder = "free"
    /\ IF ~isRunning
       THEN /\ spc' = "returned"
            /\ UNCHANGED <<ctxCancelled, monCancelled, monListed, muHolder>>
       ELSE /\ ctxCancelled' = TRUE
            /\ monCancelled' = [a \in Accounts |-> monCancelled[a] \/ monListed[a]]
            /\ monListed' = [a \in Accounts |-> FALSE]
            /\ muHolder' = "stop"
            /\ spc' = "resetAccounts"
    /\ UNCHANGED <<cfgSnipe, cfgThreads, cfgMax, started, isRunning, isStopping,
                   aaHolder, activeAccounts, tpc, txCount, wActive, snipeCount,
                   gpc, wgpc>>
    /\ UNCHANGED <<walletVars, buyVars, monVars, registry, order, txn, tokens, cli, watch, service>>

\* Stop, second part, still under bs.mu: under bs.activeAccountsMu the map is
\* replaced by an empty one; isRunning and isStopping are reset
StopFinish ==
    /\ spc = "resetAccounts"
    /\ aaHolder = NoThread
    /\ activeAccounts' = [a \in Accounts |-> "none"]
    /\ isRunning' = FALSE
    /\ isStopping' = FALSE
    /\ muHolder' = "free"
    /\ spc' = "returned"
    /\ UNCHANGED <<cfgSnipe, cfgThreads, cfgMax, started, ctxCancelled, aaHolder,
                   tpc, txCount, wActive, snipeCount, monCancelled, monListed,
                   gpc, wgpc>>
    /\ UNCHANGED <<walletVars, buyVars, monVars, registry, order, txn, tokens, cli, watch, service>>

\* monitorLoop: the select between s.ctx.Done() and the ticker; with both ready
\* either is taken
MonitorLoopExit(t) ==
    /\ IsMonitor(t)
    /\ tpc[t] = "wait"
    /\ monCancelled[t[1]]
    /\ tpc' = [tpc EXCEPT ![t] = "exited"]
    /\ UNCHANGED <<cfgSnipe, cfgThreads, cfgMax, started, isRunning, isStopping,
                   ctxCancelled, muHolder, aaHolder, activeAccounts, txCount,
                   wActive, snipeCount, monCancelled, monListed, gpc, wgpc, spc>>
    /\ UNCHANGED <<walletVars, buyVars, monVars, registry, order, txn, tokens, cli, watch, service>>

MonitorLoopTick(t) ==
    /\ IsMonitor(t)
    /\ tpc[t] = "wait"
    /\ tpc' = [tpc EXCEPT ![t] = "poll"]
    /\ UNCHANGED <<cfgSnipe, cfgThreads, cfgMax, started, isRunning, isStopping,
                   ctxCancelled, muHolder, aaHolder, activeAccounts, txCount,
                   wActive, snipeCount, monCancelled, monListed, gpc, wgpc, spc>>
    /\ UNCHANGED <<walletVars, buyVars, monVars, registry, order, txn, tokens, cli, watch, service>>

\* a poll found a matching new character: purchaseCallback, performSnipePurchase;
\* checkSnipeTransactionLimit skips the purchase at the ceiling
SnipeMayBuy(a) == ~SnipeLimitReached(a, snipeCount[a])

PurchaseCallback(t) ==
    /\ IsMonitor(t)
    /\ tpc[t] = "poll"
    /\ tpc' = [tpc EXCEPT ![t] = IF SnipeMayBuy(t[1]) THEN "buy" ELSE "poll"]
    /\ UNCHANGED <<cfgSnipe, cfgThreads, cfgMax, started, isRunning, isStopping,
                   ctxCancelled, muHolder, aaHolder, activeAccounts, txCount,
                   wActive, snipeCount, monCancelled, monListed, gpc, wgpc, spc>>
    /\ UNCHANGED <<walletVars, buyVars, monVars, registry, order, txn, tokens, cli, watch, service>>

\* checkForNewItems returns
PollEnd(t) ==
    /\ IsMonitor(t)
    /\ tpc[t] = "poll"
    /\ tpc' = [tpc EXCEPT ![t] = "wait"]
    /\ UNCHANGED <<cfgSnipe, cfgThreads, cfgMax, started, isRunning, isStopping,
                   ctxCancelled, muHolder, aaHolder, activeAccounts, txCount,
                   wActive, snipeCount, monCancelled, monListed, gpc, wgpc, spc>>
    /\ UNCHANGED <<walletVars, buyVars, monVars, registry, order, txn, tokens, cli, watch, service>>

NextOrch ==
    \/ Start
    \/ \E t \in Threads : AccountWorkerTop(t)
    \/ \E t \in Threads, sent \in BOOLEAN : PerformBuy(t, sent)
    \/ \E t \in Threads : CountWorkerTransaction(t)
    \/ \E t \in Threads : CountSnipeTransaction(t)
    \/ \E t \in Threads : SetAccountInactive(t)
    \/ \E t \in Threads : SetStopping(t)
    \/ GraceStop
    \/ GraceCancel
    \/ WaitGroupDone
    \/ StopBegin
    \/ StopFinish
    \/ \E t \in Threads : MonitorLoopExit(t)
    \/ \E t \in Threads : MonitorLoopTick(t)
    \/ \E t \in Threads : PurchaseCallback(t)
    \/ \E t \in Threads : PollEnd(t)

(***************************************************************************)
(* The start of the program: the CLI checks the configuration of every     *)
(* account, then the start command launches the accounts.                  *)
(***************************************************************************)
\* the fields of an account that validateAccount looks at (auth: phone_number
\* or auth_token is given; seedWords: the words of seed_phrase; threads), and
\* whether client.NewForAccount accepts its proxy settings
AccountConfigs ==
    [auth : BOOLEAN, seedWords : {0, 12, 23}, threads : {0, 1}, proxyOk : BOOLEAN]

\* validateAccount returns no error for the account
ValidAccount(acc) ==
    /\ acc.auth
    /\ acc.seedWords \in {12, 24}
    /\ acc.threads > 0
    /\ acc.threads <= 10

\* validateConfig: the errors of all accounts are collected in one list, and a
\* list that is not empty makes initializeConfig fail
ValidateConfig(accounts) == \A a \in Accounts : ValidAccount(accounts[a])

\* main: initializeConfig; on an error handleError and return, the program
\* ends before any service exists
InitializeConfig ==
    /\ cli.pc = "load"
    /\ cli' = [cli EXCEPT !.pc = IF ValidateConfig(cli.accounts) THEN "menu" ELSE "ended"]
    /\ UNCHANGED <<walletVars, orchVars, buyVars, monVars, registry, order, txn, tokens, watch, service>>

\* handleStartTask: BuyerService.Start goes through the accounts; an account
\* whose HTTP client cannot be created is logged and left out (continue), the
\* others get their monitor or their workers
HandleStartTask ==
    /\ cli.pc = "menu"
    /\ cli' = [cli EXCEPT !.pc = "running",
                          !.launched = {a \in Accounts : cli.accounts[a].proxyOk}]
    /\ UNCHANGED <<walletVars, orchVars, buyVars, monVars, registry, order, txn, tokens, watch, service>>

NextCli ==
    \/ InitializeConfig
    \/ HandleStartTask

(***************************************************************************)
(* Token manager: GetCachedToken, RefreshTokenOnError, PreventiveRefresh.  *)
(* Tokens are numbered, 0 stands for the empty string or a missing entry.  *)
(* Time: an entry is recent while time.Since(LastCheck) < checkCooldown;   *)
(* Tick ends the cooldown of everything written so far; an entry is        *)
(* "fresh" until 5 minutes before ExpiresAt, then "soon", then "expired".  *)
(***************************************************************************)
TokCallers == 1..NumTokCallers
\* what refreshTokenViaTelegram can give: a new token, an error, or a token
\* that contains "INVALID_TEMP_TOKEN"
AuthOutcomes == {"new", "fail", "temp"}
NoReturn == [err |-> FALSE, value |-> 0]
\* what is known of the RefreshTokenOnError a caller has just finished: did
\* the authorization fail, the cached token at its begin, what it returned
NoDone == [failed |-> FALSE, prev |-> 0, ret |-> NoReturn]

\* tm.mutex is write-locked from the entry of RefreshTokenOnError to its
\* return (defer tm.mutex.Unlock()): across the Telegram authorization
Locked(t) ==
    \/ \E c \in TokCallers : t.pc[c] = "auth"
    \/ \E a \in Accounts : t.rpc[a] = "auth"

\* tm.mutex is read-locked by the goroutines inside GetCachedToken
ReadLocked(t) == \E c \in TokCallers : t.pc[c] = "reading"

\* a check that never finds an entry within its cooldown
NeverInCooldown(t, a, soft) == FALSE

\* RefreshTokenOnError: exists && !isTokenError && time.Since(LastCheck) < checkCooldown
InCooldown(t, a, soft) == t.cache[a] # 0 /\ soft /\ t.recent[a]

\* the token a successful authorization issues: the one after the configured
NewToken(t, a) == t.config[a] + 1

\* RefreshTokenOnError after refreshTokenViaTelegram returned: the token
\* manager's data and the (token, error) returned
AfterAuth(t, a, outcome) ==
    IF outcome = "new"
    THEN [config |-> [t.config EXCEPT ![a] = NewToken(t, a)],
          cache |-> [t.cache EXCEPT ![a] = NewToken(t, a)],
          recent |-> [t.recent EXCEPT ![a] = TRUE],
          ttl |-> [t.ttl EXCEPT ![a] = "fresh"],
          ret |-> [err |-> FALSE, value |-> NewToken(t, a)]]
    ELSE [config |-> t.config, cache |-> t.cache, recent |-> t.recent, ttl |-> t.ttl,
          ret |-> IF outcome = "fail" /\ t.config[a] # 0
                  THEN [err |-> FALSE, value |-> t.config[a]]
                  ELSE [err |-> TRUE, value |-> 0]]

\* what is kept of the last finished RefreshTokenOnError of an account while
\* no cooldown has passed since, when its reason was no token error and the
\* account had a cached token: how often it authorized, what it returned, and
\* whether it left the entry within its cooldown (it found it so, or it
\* refreshed it)
NoCall == [soft |-> FALSE, settled |-> FALSE, invoked |-> 0, ret |-> NoReturn]
CallOf(soft, hadEntry, settled, invoked, ret) ==
    IF soft /\ hadEntry
    THEN [soft |-> TRUE, settled |-> settled, invoked |-> invoked, ret |-> ret]
    ELSE NoCall

\* what is kept of such a call together with the next call for the account,
\* when that has no token error as its reason either: was the entry, as the
\* first call left it, within its cooldown at the second call, did both
\* return the same token, how often did they authorize
NoPair == [valid |-> FALSE, cooled |-> FALSE, same |-> TRUE, invoked |-> 0]
PairOf(first, soft, cooled, invoked, ret) ==
    IF first.soft /\ soft
    THEN [valid |-> TRUE,
          cooled |-> cooled /\ first.settled,
          same |-> ~ret.err /\ ~first.ret.err /\ ret.value = first.ret.value,
          invoked |-> first.invoked + invoked]
    ELSE NoPair

\* what is kept of a RefreshTokenOnError whose authorization failed
DoneOf(failed, prev, ret) ==
    IF failed THEN [failed |-> TRUE, prev |-> prev, ret |-> ret] ELSE NoDone

\* a caller is a worker or the monitor of one account and passes its name
AccountOfCaller(c) == IF c = 1 THEN "acc1" ELSE "acc2"

\* a goroutine asks for GetValidToken (GetCachedToken)
GetCalled(c) ==
    /\ tokens.pc[c] = "idle"
    /\ tokens.calls[c] < MaxTokCalls
    /\ tokens' = [tokens EXCEPT !.pc[c] = "get", !.calls[c] = @ + 1,
                                !.done[c] = NoDone]
    /\ UNCHANGED <<walletVars, orchVars, buyVars, monVars, registry, order, txn, cli, watch, service>>

\* GetCachedToken: tm.mutex.RLock(), which waits only for a writer
GetCachedTokenRLock(c) ==
    /\ tokens.pc[c] = "get"
    /\ ~Locked(tokens)
    /\ tokens' = [tokens EXCEPT !.pc[c] = "reading"]
    /\ UNCHANGED <<walletVars, orchVars, buyVars, monVars, registry, order, txn, cli, watch, service>>

\* GetCachedToken finds no entry that has not expired and a configured token:
\* it is going to assign tm.tokens[accountName]
RewritesEntry(t, a) ==
    ~(t.cache[a] # 0 /\ t.ttl[a] # "expired") /\ t.config[a] # 0

\* GetCachedToken under tm.mutex.RLock: the cached token if it has not
\* expired, else the configured token, which is put into the cache, else an
\* error
GetCachedToken(c) ==
    LET a == AccountOfCaller(c) IN
    /\ tokens.pc[c] = "reading"
    /\ IF tokens.cache[a] # 0 /\ tokens.ttl[a] # "expired"
       THEN tokens' = [tokens EXCEPT !.pc[c] = "idle"]
       ELSE IF tokens.config[a] # 0
       THEN tokens' = [tokens EXCEPT !.pc[c] = "idle",
                                     !.cache[a] = tokens.config[a],
                                     !.recent[a] = TRUE,
                                     !.ttl[a] = "fresh"]
       ELSE tokens' = [tokens EXCEPT !.pc[c] = "idle"]
    /\ UNCHANGED <<walletVars, orchVars, buyVars, monVars, registry, order, txn, cli, watch, service>>

\* GetCachedToken assigns tm.tokens[accountName] while another goroutine is
\* inside GetCachedToken with the same read lock, reading or assigning the
\* map: a data race on a Go map. Besides the outcomes in which the accesses
\* fall one after the other (the steps above), the runtime may end the
\* process with "fatal error: concurrent map read and map write" (or "writes")
ConcurrentMapAccess(c) ==
    /\ tokens.pc[c] = "reading"
    /\ RewritesEntry(tokens, AccountOfCaller(c))
    /\ \E d \in TokCallers \ {c} : tokens.pc[d] = "reading"
    /\ tokens' = [tokens EXCEPT
                    !.pc = [d \in TokCallers |-> "crashed"],
                    !.sweep = "crashed",
                    !.rpc = [a \in Accounts |-> "none"]]
    /\ UNCHANGED <<walletVars, orchVars, buyVars, monVars, registry, order, txn, cli, watch, service>>

\* a goroutine calls RefreshTokenOnError(accountName, statusCode); soft: the
\* status code is none of 401, 403, 200
RefreshCalled(c, soft) ==
    /\ tokens.pc[c] = "idle"
    /\ tokens.calls[c] < MaxTokCalls
    /\ tokens' = [tokens EXCEPT !.pc[c] = "refresh", !.soft[c] = soft,
                                !.calls[c] = @ + 1, !.done[c] = NoDone]
    /\ UNCHANGED <<walletVars, orchVars, buyVars, monVars, registry, order, txn, cli, watch, service>>

\* RefreshTokenOnError: tm.mutex.Lock, the cooldown check; within the cooldown
\* the cached token is returned, otherwise the authorization starts
RefreshTokenOnErrorBegin(c) ==
    LET a == AccountOfCaller(c)
        soft == tokens.soft[c]
        cooled == tokens.cache[a] # 0 /\ tokens.recent[a]
        ret == [err |-> FALSE, value |-> tokens.cache[a]] IN
    /\ tokens.pc[c] = "refresh"
    /\ ~Locked(tokens) /\ ~ReadLocked(tokens)
    /\ IF InCooldown(tokens, a, soft)
       THEN tokens' = [tokens EXCEPT
                         !.pc[c] = "idle",
                         !.pair[a] = PairOf(tokens.last[a], soft, cooled, 0, ret),
                         !.last[a] = CallOf(soft, tokens.cache[a] # 0, TRUE, 0, ret)]
       ELSE tokens' = [tokens EXCEPT
                         !.pc[c] = "auth",
                         !.cooled[c] = soft /\ cooled]
    /\ UNCHANGED <<walletVars, orchVars, buyVars, monVars, registry, order, txn, cli, watch, service>>

\* RefreshTokenOnError from the answer of refreshTokenViaTelegram to the
\* return, which unlocks tm.mutex
RefreshTokenOnErrorEnd(c, outcome) ==
    LET a == AccountOfCaller(c)
        soft == tokens.soft[c]
        r == AfterAuth(tokens, a, outcome) IN
    /\ tokens.pc[c] = "auth"
    /\ outcome = "new" => tokens.config[a] < MaxTokens
    /\ tokens' = [tokens EXCEPT
                    !.config = r.config, !.cache = r.cache, !.recent = r.recent,
                    !.ttl = r.ttl,
                    !.pc[c] = "idle",
                    !.cooled[c] = FALSE,
                    !.done[c] = DoneOf(outcome # "new", tokens.cache[a], r.ret),
                    !.pair[a] = PairOf(tokens.last[a], soft, tokens.cooled[c], 1, r.ret),
                    !.last[a] = CallOf(soft, tokens.cache[a] # 0, outcome = "new", 1, r.ret)]
    /\ UNCHANGED <<walletVars, orchVars, buyVars, monVars, registry, order, txn, cli, watch, service>>

\* the ticker of Start fires: the goroutine calls PreventiveRefresh
PreventiveRefreshCalled ==
    /\ tokens.sweep = "idle"
    /\ tokens.sweeps < MaxSweeps
    /\ tokens' = [tokens EXCEPT !.sweep = "lock", !.sweeps = @ + 1]
    /\ UNCHANGED <<walletVars, orchVars, buyVars, monVars, registry, order, txn, cli, watch, service>>

\* PreventiveRefresh: time.Until(ExpiresAt) < 5 * time.Minute
ExpiresSoon(t, a) == t.cache[a] # 0 /\ t.ttl[a] # "fresh"

\* PreventiveRefresh under tm.mutex.Lock: a goroutine is started for every
\* entry that expires soon
PreventiveRefresh ==
    /\ tokens.sweep = "lock"
    /\ ~Locked(tokens) /\ ~ReadLocked(tokens)
    /\ tokens' = [tokens EXCEPT
                    !.sweep = "idle",
                    !.rpc = [a \in Accounts |->
                               IF ExpiresSoon(tokens, a) /\ tokens.rpc[a] = "none"
                               THEN "refresh" ELSE tokens.rpc[a]]]
    /\ UNCHANGED <<walletVars, orchVars, buyVars, monVars, registry, order, txn, cli, watch, service>>

\* the goroutine of PreventiveRefresh: RefreshTokenOnError(name, 401) locks
\* tm.mutex; 401 is a token error, no cooldown applies
SweepRefreshBegin(a) ==
    /\ tokens.rpc[a] = "refresh"
    /\ ~Locked(tokens) /\ ~ReadLocked(tokens)
    /\ tokens' = [tokens EXCEPT !.rpc[a] = "auth"]
    /\ UNCHANGED <<walletVars, orchVars, buyVars, monVars, registry, order, txn, cli, watch, service>>

\* the goroutine of PreventiveRefresh: the authorization answered, the
\* result is only logged
SweepRefreshEnd(a, outcome) ==
    LET r == AfterAuth(tokens, a, outcome) IN
    /\ tokens.rpc[a] = "auth"
    /\ outcome = "new" => tokens.config[a] < MaxTokens
    /\ tokens' = [tokens EXCEPT
                    !.config = r.config, !.cache = r.cache, !.recent = r.recent,
                    !.ttl = r.ttl,
                    !.rpc[a] = "none",
                    !.pair[a] = NoPair,
                    !.last[a] = NoCall]
    /\ UNCHANGED <<walletVars, orchVars, buyVars, monVars, registry, order, txn, cli, watch, service>>

\* a cooldown's length of time passes: nothing written so far is recent any
\* more, and a later call is not within a cooldown of the calls so far
Tick ==
    /\ \E a \in Accounts : tokens.recent[a] \/ tokens.last[a] # NoCall
    /\ tokens' = [tokens EXCEPT
                    !.recent = [a \in Accounts |-> FALSE],
                    !.last = [a \in Accounts |-> NoCall]]
    /\ UNCHANGED <<walletVars, orchVars, buyVars, monVars, registry, order, txn, cli, watch, service>>

\* more time passes for an entry: it comes within 5 minutes of ExpiresAt,
\* then it expires
Expire(a) ==
    /\ tokens.cache[a] # 0
    /\ ~tokens.recent[a]
    /\ tokens.ttl[a] # "expired"
    /\ tokens' = [tokens EXCEPT !.ttl[a] = IF @ = "fresh" THEN "soon" ELSE "expired"]
    /\ UNCHANGED <<walletVars, orchVars, buyVars, monVars, registry, order, txn, cli, watch, service>>

NextTokens ==
    \/ \E c \in TokCallers : GetCalled(c)
    \/ \E c \in TokCallers : GetCachedTokenRLock(c)
    \/ \E c \in TokCallers : GetCachedToken(c)
    \/ \E c \in TokCallers : ConcurrentMapAccess(c)
    \/ \E c \in TokCallers, soft \in BOOLEAN : RefreshCalled(c, soft)
    \/ \E c \in TokCallers : RefreshTokenOnErrorBegin(c)
    \/ \E c \in TokCallers, o \in AuthOutcomes : RefreshTokenOnErrorEnd(c, o)
    \/ PreventiveRefreshCalled
    \/ PreventiveRefresh
    \/ \E a \in Accounts : SweepRefreshBegin(a)
    \/ \E a \in Accounts, o \in AuthOutcomes : SweepRefreshEnd(a, o)
    \/ Tick
    \/ \E a \in Accounts : Expire(a)

(***************************************************************************)
(* One purchase cycle: performAccountBuy with its token refreshes and      *)
(* retries, and the statistics it keeps.                                   *)
(***************************************************************************)
StatusCodes == {200, 401, 403, 500}
\* what matters of a response body: an order, the structured invalid-token
\* error, anything else
Bodies == {"order", "invalid_auth_token", "other"}

\* makeOrderRequest returned an error (the request or the payment failed)
CallError == [err |-> TRUE, status |-> 0, body |-> "other", sent |-> FALSE]
\* makeOrderRequest returned a response; the payment is only sent for an order
CallOutcomes ==
    {CallError} \cup
    {o \in [err : {FALSE}, status : StatusCodes, body : Bodies, sent : BOOLEAN] :
        o.sent => (o.status = 200 /\ o.body = "order")}

\* a client for which 200 is no success
SuccessAbove200(o) == o.status > 200 /\ o.status < 300

\* BuyStickers: success := 2xx
Success(o) == o.status >= 200 /\ o.status < 300
\* BuyStickers: isTokenError := 401, 403 or an invalid-token body
IsTokenError(o) == o.status = 401 \/ o.status = 403 \/ o.body = "invalid_auth_token"

\* RefreshTokenOnError: the statuses for which the cooldown is ignored
ForcedRefresh(status) == status = 401 \/ status = 403 \/ status = 200
\* RefreshTokenOnError: the cached token within the cooldown ("cached"), a new
\* token ("new"), the old token after a failed refresh ("old"), or an error
RefreshOutcomes == {"cached", "new", "old", "error"}
RefreshPossible(r, status) == r = "cached" => ~ForcedRefresh(status)
RefreshCount(r) == IF r = "cached" THEN 0 ELSE 1

NoStatistics ==
    [TotalRequests |-> 0, SuccessRequests |-> 0, FailedRequests |-> 0,
     InvalidTokens |-> 0, SentTransactions |-> 0]

Failed(st) == [st EXCEPT !.FailedRequests = @ + 1]
Requested(st) == [st EXCEPT !.TotalRequests = @ + 1]

\* performAccountBuy, the end: !resp.Success counts a failure, otherwise a
\* success and, if the transaction was sent, a sent transaction
CountResponse(st, o) ==
    IF ~Success(o) THEN Failed(st)
    ELSE [st EXCEPT !.SuccessRequests = @ + 1,
                    !.SentTransactions = @ + (IF o.sent THEN 1 ELSE 0)]


\* performAccountBuy: GetValidToken; an error counts a failure and ends the cycle
BeginCycle(tokenOk) ==
    /\ bpc \in {"idle", "done"}
    /\ cycles < MaxCycles
    /\ cycles' = cycles + 1
    /\ calls' = <<>>
    /\ refreshes' = 0
    /\ resp' = CallError
    /\ bpc' = IF tokenOk THEN "call" ELSE "done"
    /\ statistics' = IF tokenOk THEN statistics ELSE Failed(statistics)
    /\ UNCHANGED <<walletVars, orchVars, monVars, registry, order, txn, tokens, cli, watch, service>>

\* performAccountBuy after the first block: resp.IsTokenError counts a failure
\* and an invalid token and goes on to a refresh; otherwise the response is
\* counted and the cycle ends
AfterStatusBlock(st, o) ==
    /\ resp' = o
    /\ IF IsTokenError(o)
       THEN /\ statistics' = [Failed(st) EXCEPT !.InvalidTokens = @ + 1]
            /\ bpc' = "refreshToken"
       ELSE /\ statistics' = CountResponse(st, o)
            /\ bpc' = "done"

\* performAccountBuy: the first makeOrderRequest; 401/403 goes to the refresh
\* of the first block
FirstCall(o) ==
    /\ bpc = "call"
    /\ calls' = Append(calls, o)
    /\ IF o.err
       THEN /\ statistics' = Failed(Requested(statistics))
            /\ bpc' = "done"
            /\ resp' = resp
       ELSE IF o.status = 401 \/ o.status = 403
       THEN /\ statistics' = Requested(statistics)
            /\ bpc' = "refreshStatus"
            /\ resp' = o
       ELSE AfterStatusBlock(Requested(statistics), o)
    /\ UNCHANGED <<refreshes, cycles>>
    /\ UNCHANGED <<walletVars, orchVars, monVars, registry, order, txn, tokens, cli, watch, service>>

\* performAccountBuy, first block: RefreshTokenOnError(status)
RefreshOnStatus(r) ==
    /\ bpc = "refreshStatus"
    /\ RefreshPossible(r, resp.status)
    /\ refreshes' = refreshes + RefreshCount(r)
    /\ IF r = "error"
       THEN /\ statistics' = Failed(statistics)
            /\ bpc' = "done"
       ELSE /\ statistics' = statistics
            /\ bpc' = "retryStatus"
    /\ UNCHANGED <<resp, calls, cycles>>
    /\ UNCHANGED <<walletVars, orchVars, monVars, registry, order, txn, tokens, cli, watch, service>>

\* performAccountBuy, first block: the retry with the new token; its response
\* replaces the first one
RetryOnStatus(o) ==
    /\ bpc = "retryStatus"
    /\ calls' = Append(calls, o)
    /\ IF o.err
       THEN /\ statistics' = Failed(Requested(statistics))
            /\ bpc' = "done"
            /\ resp' = resp
       ELSE AfterStatusBlock(Requested(statistics), o)
    /\ UNCHANGED <<refreshes, cycles>>
    /\ UNCHANGED <<walletVars, orchVars, monVars, registry, order, txn, tokens, cli, watch, service>>

\* performAccountBuy, resp.IsTokenError block: RefreshTokenOnError(status); an
\* error ends the cycle
RefreshOnTokenError(r) ==
    /\ bpc = "refreshToken"
    /\ RefreshPossible(r, resp.status)
    /\ refreshes' = refreshes + RefreshCount(r)
    /\ bpc' = IF r = "error" THEN "done" ELSE "retryToken"
    /\ UNCHANGED <<resp, calls, statistics, cycles>>
    /\ UNCHANGED <<walletVars, orchVars, monVars, registry, order, txn, tokens, cli, watch, service>>

\* performAccountBuy, resp.IsTokenError block: the retry; an error ends the
\* cycle, a response is counted
RetryOnTokenError(o) ==
    /\ bpc = "retryToken"
    /\ calls' = Append(calls, o)
    /\ IF o.err
       THEN /\ statistics' = Requested(statistics)
            /\ resp' = resp
       ELSE /\ statistics' = CountResponse(Requested(statistics), o)
            /\ resp' = o
    /\ bpc' = "done"
    /\ UNCHANGED <<refreshes, cycles>>
    /\ UNCHANGED <<walletVars, orchVars, monVars, registry, order, txn, tokens, cli, watch, service>>

NextBuy ==
    \/ \E tokenOk \in BOOLEAN : BeginCycle(tokenOk)
    \/ \E o \in CallOutcomes : FirstCall(o)
    \/ \E r \in RefreshOutcomes : RefreshOnStatus(r)
    \/ \E o \in CallOutcomes : RetryOnStatus(o)
    \/ \E r \in RefreshOutcomes : RefreshOnTokenError(r)
    \/ \E o \in CallOutcomes : RetryOnTokenError(o)

(***************************************************************************)
(* Snipe monitor: Start with initializeState, the monitor loop,            *)
(* checkForNewItems with checkCollection and                               *)
(* checkCollectionForNewCharacters, the filters, Stop.                     *)
(***************************************************************************)
Collections == {1, 2}
Characters == {1, 2}
\* key := fmt.Sprintf("%d:%d", collectionID, characterID)
Keys == Collections \X Characters

\* the catalog data of the model: titles as sequences of letters, prices, supplies
Title(c) == IF c = 1 THEN <<"C", "a", "t">> ELSE <<"d", "o", "g">>
Price(k) == IF k = <<1, 2>> THEN 50 ELSE 5
Supply(k) == IF k = <<2, 1>> THEN 9 ELSE 3

\* strings.ToLower on the letters of the model
ToLowerLetter(ch) ==
    CASE ch = "A" -> "a"
      [] ch = "C" -> "c"
      [] OTHER -> ch
ToLower(str) == [i \in 1..Len(str) |-> ToLowerLetter(str[i])]
\* strings.Contains
Contains(str, sub) ==
    \E i \in 0..(Len(str) - Len(sub)) : SubSeq(str, i + 1, i + Len(sub)) = sub

NoRange == [set |-> FALSE, Min |-> 0, Max |-> 0]
WordFilters == {<<>>, << <<"c", "A">> >>, << <<"x">>, <<"bird">> >>}
SupplyRanges == {NoRange, [set |-> TRUE, Min |-> 1, Max |-> 5]}
PriceRanges == {NoRange, [set |-> TRUE, Min |-> 5, Max |-> 10]}
MonitorConfigs == [WordFilter : WordFilters, SupplyRange : SupplyRanges, PriceRange : PriceRanges]

\* matchesWordFilter: no filter passes all; otherwise some word of the filter
\* occurs in the title, both lower-cased
MatchesWordFilter(title) ==
    \/ Len(monConfig.WordFilter) = 0
    \/ \E i \in 1..Len(monConfig.WordFilter) :
          Contains(ToLower(title), ToLower(monConfig.WordFilter[i]))

\* a range whose ends are not allowed
InOpenRange(r, v) == r.set => (v > r.Min /\ v < r.Max)

\* matchesFilters: value < Min || value > Max rejects
InRange(r, v) == r.set => (v >= r.Min /\ v <= r.Max)
\* matchesFilters: supply range, then price range, each only if configured
MatchesFilters(k) ==
    /\ InRange(monConfig.SupplyRange, Supply(k))
    /\ InRange(monConfig.PriceRange, Price(k))

\* GetCollections with the token handling around it: the list, an error (of
\* the request, of the refresh or of the retry), or the list of the retry
\* after a token error and a refresh
FetchOutcomes == {"ok", "error", "refreshed"}

\* the response of GetCollectionDetails for a collection
DetailsOf(c) == {k \in srvCharacters : k[1] = c}

\* the entries of a response in the order they are ranged over
RECURSIVE CollectionsInOrder(_)
CollectionsInOrder(S) ==
    IF S = {} THEN <<>>
    ELSE LET m == CHOOSE x \in S : \A y \in S : x <= y
         IN <<m>> \o CollectionsInOrder(S \ {m})

RECURSIVE CharactersInOrder(_)
CharactersInOrder(S) ==
    IF S = {} THEN <<>>
    ELSE LET m == CHOOSE x \in S : \A y \in S : x[2] <= y[2]
         IN <<m>> \o CharactersInOrder(S \ {m})

\* a seed step that records no character
RememberNoCharacters(chars) == {}

\* initializeState / reinitialization: s.knownCharacters[key] = true for every
\* character of the fetched details
RememberCharacters(chars) == chars

\* what one run of checkForNewItems has done so far: cycle is its kind
\* ("reseed" when the list came from the retry after a token refresh and no
\* collection was known), baseline and baselineChars are the ids of the
\* responses a reseed received, seen the characters met in a response while
\* not known, early those for which a filter was evaluated before they were
\* marked known, raised those handed to the purchase callback; held are the
\* locks the monitor goroutine holds, nested the pairs <<held, acquired>> of a
\* lock it acquired while holding another
NoWatch ==
    [cycle |-> "none", baseline |-> {}, baselineChars |-> {},
     seen |-> {}, early |-> {}, raised |-> {}, held |-> {}, nested |-> {}]

\* the monitor goroutine locks and unlocks the lock within one step of it:
\* s.tokenCallback is TokenManager.GetValidToken, which takes tm.mutex
Acquire(w, lock) == [w EXCEPT !.nested = @ \cup {<<h, lock>> : h \in w.held}]

\* checkForNewItems: s.mutex.Lock() with its deferred Unlock
LockKnownIds(w) == [w EXCEPT !.held = @ \cup {"knownIds"}]
UnlockKnownIds(w) == [w EXCEPT !.held = @ \ {"knownIds"}]

\* a monitor that never takes the list as a new baseline
NeverReseeds(tokenWasRefreshed, known) == FALSE

\* checkForNewItems: if tokenWasRefreshed && len(s.knownCollections) == 0
Reseeds(tokenWasRefreshed, known) == tokenWasRefreshed /\ known = {}

\* initializeState and the reinitialization in checkForNewItems: every listed
\* collection is known; so are the characters of those whose details came
SeedState(failed) ==
    /\ knownCollections' = knownCollections \cup srvCollections
    /\ knownCharacters' = knownCharacters \cup
           RememberCharacters(UNION {DetailsOf(c) : c \in srvCollections \ failed})


\* the marketplace publishes a collection
ServerAddCollection(c) ==
    /\ c \notin srvCollections
    /\ srvCollections' = srvCollections \cup {c}
    /\ UNCHANGED <<monConfig, srvCharacters, knownCollections, knownCharacters,
                   mpc, phase, pollTodo, charTodo, monCtxDone, intentCount,
                   startPresent, startFetched>>
    /\ UNCHANGED <<walletVars, orchVars, buyVars, registry, order, txn, tokens, cli, watch, service>>

\* the marketplace publishes a character of a collection
ServerAddCharacter(k) ==
    /\ k[1] \in srvCollections
    /\ k \notin srvCharacters
    /\ srvCharacters' = srvCharacters \cup {k}
    /\ UNCHANGED <<monConfig, srvCollections, knownCollections, knownCharacters,
                   mpc, phase, pollTodo, charTodo, monCtxDone, intentCount,
                   startPresent, startFetched>>
    /\ UNCHANGED <<walletVars, orchVars, buyVars, registry, order, txn, tokens, cli, watch, service>>

\* Start: initializeState, then the monitor loop is started. An error of the
\* list fetch leaves the state empty; a failed detail fetch leaves the
\* characters of that collection unrecorded
StartMonitor(outcome, failed) ==
    /\ mpc = "idle"
    /\ failed \subseteq srvCollections
    /\ IF outcome = "error"
       THEN /\ failed = {}
            /\ UNCHANGED <<knownCollections, knownCharacters, startPresent, startFetched>>
       ELSE /\ SeedState(failed)
            /\ startPresent' = srvCharacters
            /\ startFetched' = UNION {DetailsOf(c) : c \in srvCollections \ failed}
    /\ mpc' = "wait"
    /\ UNCHANGED <<monConfig, srvCollections, srvCharacters, phase, pollTodo,
                   charTodo, monCtxDone, intentCount>>
    /\ UNCHANGED <<walletVars, orchVars, buyVars, registry, order, txn, tokens, cli, watch, service>>

\* Stop: s.cancel()
StopMonitor ==
    /\ mpc # "idle"
    /\ ~monCtxDone
    /\ monCtxDone' = TRUE
    /\ UNCHANGED <<monConfig, srvCollections, srvCharacters, knownCollections,
                   knownCharacters, mpc, phase, pollTodo, charTodo, intentCount,
                   startPresent, startFetched>>
    /\ UNCHANGED <<walletVars, orchVars, buyVars, registry, order, txn, tokens, cli, watch, service>>

\* monitorLoop: case <-s.ctx.Done(): return
MonitorLoopDone ==
    /\ mpc = "wait"
    /\ monCtxDone
    /\ mpc' = "exited"
    /\ UNCHANGED <<monConfig, srvCollections, srvCharacters, knownCollections,
                   knownCharacters, phase, pollTodo, charTodo, monCtxDone,
                   intentCount, startPresent, startFetched>>
    /\ UNCHANGED <<walletVars, orchVars, buyVars, registry, order, txn, tokens, cli, watch, service>>

\* monitorLoop: case <-ticker.C (taken also when the context is done and both
\* cases are ready), and checkForNewItems up to its loop: the list fetch; with
\* a refreshed token and no known collection the list is the new baseline. A
\* fetch that ends in an error, or an empty list, changes nothing
CheckForNewItems(outcome, failed) ==
    /\ mpc = "wait"
    /\ outcome # "error"
    /\ failed \subseteq srvCollections
    /\ IF Reseeds(outcome = "refreshed", knownCollections)
       THEN /\ SeedState(failed)
            /\ UNCHANGED <<mpc, phase, pollTodo>>
       ELSE /\ failed = {}
            /\ srvCollections # {}
            /\ pollTodo' = CollectionsInOrder(srvCollections)
            /\ mpc' = "poll"
            /\ phase' = "collection"
            /\ UNCHANGED <<knownCollections, knownCharacters>>
    /\ watch' = IF outcome = "refreshed" /\ knownCollections = {}
                THEN [NoWatch EXCEPT
                        !.cycle = "reseed",
                        !.baseline = srvCollections,
                        !.baselineChars =
                            UNION {DetailsOf(c) : c \in srvCollections \ failed}]
                ELSE LockKnownIds([NoWatch EXCEPT !.cycle = "poll"])
    /\ UNCHANGED <<monConfig, srvCollections, srvCharacters, charTodo,
                   monCtxDone, intentCount, startPresent, startFetched>>
    /\ UNCHANGED <<walletVars, orchVars, buyVars, registry, order, txn, tokens, cli, service>>

\* purchaseCallback(request): one more intent for the character
RaiseIntent(k) ==
    [intentCount EXCEPT ![k] = IF @ < MaxIntents THEN @ + 1 ELSE @]

\* checkForNewItems, one collection of the list: a collection not yet known is
\* marked and checkCollection fetches its details (an error, or a title the
\* word filter rejects, ends checkCollection before any character is marked).
\* The word filter is evaluated on the title once the details have come, and
\* the characters of the response are marked only after it
CheckListedCollection(ok) ==
    LET c == Head(pollTodo) IN
    /\ mpc = "poll"
    /\ phase = "collection"
    /\ IF c \notin knownCollections
       THEN /\ knownCollections' = knownCollections \cup {c}
            /\ IF ok /\ MatchesWordFilter(Title(c)) /\ DetailsOf(c) # {}
               THEN /\ charTodo' = CharactersInOrder(DetailsOf(c))
                    /\ phase' = "checkCollection"
               ELSE /\ charTodo' = <<>>
                    /\ phase' = "fetchDetails"
       ELSE /\ ok
            /\ phase' = "fetchDetails"
            /\ UNCHANGED <<knownCollections, charTodo>>
    /\ watch' = IF c \notin knownCollections
                THEN Acquire(IF ok
                             THEN [watch EXCEPT
                                     !.seen = @ \cup (DetailsOf(c) \ knownCharacters),
                                     !.early = @ \cup (DetailsOf(c) \ knownCharacters)]
                             ELSE watch,
                             "credentialCache")
                ELSE watch
    /\ UNCHANGED <<monConfig, srvCollections, srvCharacters, knownCharacters,
                   mpc, pollTodo, monCtxDone, intentCount, startPresent, startFetched>>
    /\ UNCHANGED <<walletVars, orchVars, buyVars, registry, order, txn, tokens, cli, service>>

\* checkCollection, one character: it is marked known and, if it matches the
\* filters, the purchase callback is called
CheckCollection ==
    LET k == Head(charTodo) IN
    /\ mpc = "poll"
    /\ phase = "checkCollection"
    /\ knownCharacters' = knownCharacters \cup {k}
    /\ intentCount' = IF MatchesFilters(k) THEN RaiseIntent(k) ELSE intentCount
    /\ charTodo' = Tail(charTodo)
    /\ phase' = IF Tail(charTodo) = <<>> THEN "fetchDetails" ELSE phase
    /\ watch' = IF MatchesFilters(k)
                THEN [watch EXCEPT !.raised = @ \cup {k}]
                ELSE watch
    /\ UNCHANGED <<monConfig, srvCollections, srvCharacters, knownCollections,
                   mpc, pollTodo, monCtxDone, startPresent, startFetched>>
    /\ UNCHANGED <<walletVars, orchVars, buyVars, registry, order, txn, tokens, cli, service>>

\* checkForNewItems goes on to the next collection of the list, or returns
NextCollection ==
    /\ pollTodo' = Tail(pollTodo)
    /\ charTodo' = <<>>
    /\ IF Tail(pollTodo) = <<>>
       THEN mpc' = "wait" /\ phase' = "none"
       ELSE mpc' = mpc /\ phase' = "collection"

\* checkCollectionForNewCharacters: s.tokenCallback and the detail fetch; the
\* last collection of the list ends checkForNewItems, which unlocks s.mutex
FetchCollectionDetails(ok) ==
    LET c == Head(pollTodo) IN
    /\ mpc = "poll"
    /\ phase = "fetchDetails"
    /\ IF ok /\ DetailsOf(c) # {}
       THEN /\ charTodo' = CharactersInOrder(DetailsOf(c))
            /\ phase' = "newCharacters"
            /\ watch' = Acquire(watch, "credentialCache")
            /\ UNCHANGED <<mpc, pollTodo>>
       ELSE /\ NextCollection
            /\ watch' = IF Tail(pollTodo) = <<>>
                        THEN UnlockKnownIds(Acquire(watch, "credentialCache"))
                        ELSE Acquire(watch, "credentialCache")
    /\ UNCHANGED <<monConfig, srvCollections, srvCharacters, knownCollections,
                   knownCharacters, monCtxDone, intentCount, startPresent, startFetched>>
    /\ UNCHANGED <<walletVars, orchVars, buyVars, registry, order, txn, tokens, cli, service>>

\* a lookup that finds no character known
IsNeverKnownCharacter(k) == FALSE

\* checkCollectionForNewCharacters: s.knownCharacters[key]
IsKnownCharacter(k) == k \in knownCharacters

\* checkCollectionForNewCharacters, one character: one not yet known is marked
\* known; if the collection's title passes the word filter and the character
\* the other filters, the purchase callback is called
CheckCollectionForNewCharacters ==
    LET k == Head(charTodo)
        looked == IF ~IsKnownCharacter(k)
                  THEN [watch EXCEPT
                          !.seen = @ \cup {k},
                          !.raised = IF MatchesWordFilter(Title(k[1])) /\ MatchesFilters(k)
                                     THEN @ \cup {k} ELSE @]
                  ELSE watch IN
    /\ mpc = "poll"
    /\ phase = "newCharacters"
    /\ IF ~IsKnownCharacter(k)
       THEN /\ knownCharacters' = knownCharacters \cup {k}
            /\ intentCount' = IF MatchesWordFilter(Title(k[1])) /\ MatchesFilters(k)
                              THEN RaiseIntent(k) ELSE intentCount
       ELSE UNCHANGED <<knownCharacters, intentCount>>
    /\ watch' = IF Tail(charTodo) = <<>> /\ Tail(pollTodo) = <<>>
                THEN UnlockKnownIds(looked) ELSE looked
    /\ IF Tail(charTodo) = <<>>
       THEN NextCollection
       ELSE /\ charTodo' = Tail(charTodo)
            /\ UNCHANGED <<mpc, phase, pollTodo>>
    /\ UNCHANGED <<monConfig, srvCollections, srvCharacters, knownCollections,
                   monCtxDone, startPresent, startFetched>>
    /\ UNCHANGED <<walletVars, orchVars, buyVars, registry, order, txn, tokens, cli, service>>

NextMon ==
    \/ \E c \in Collections : ServerAddCollection(c)
    \/ \E k \in Keys : ServerAddCharacter(k)
    \/ \E o \in FetchOutcomes, failed \in SUBSET Collections : StartMonitor(o, failed)
    \/ StopMonitor
    \/ MonitorLoopDone
    \/ \E o \in FetchOutcomes, failed \in SUBSET Collections : CheckForNewItems(o, failed)
    \/ \E ok \in BOOLEAN : CheckListedCollection(ok)
    \/ CheckCollection
    \/ \E ok \in BOOLEAN : FetchCollectionDetails(ok)
    \/ CheckCollectionForNewCharacters

(***************************************************************************)
(* Buyer service over several runs: Start called again after a run has    *)
(* ended, the goroutines of an earlier run that are still alive, and the   *)
(* range variable of Start's loop that the monitors are given.             *)
(***************************************************************************)
\* bs.config.Accounts, in the order of the configuration file
AccountOrder == <<"acc1", "acc2">>
\* the calls of Start that are followed, and the payments per counter
MaxRuns == 2
MaxSent == 1
Runs == 1..MaxRuns
\* <<g, a>>: the goroutine (monitorLoop of a snipe account, accountWorker of
\* a direct account with one thread) that the g-th Start launched for a
Goroutines == Runs \X Accounts

\* NewBuyerService: nothing running, no monitor, empty maps
NoService ==
    [snipe |-> [a \in Accounts |-> FALSE],
     ceiling |-> [a \in Accounts |-> 0],
     run |-> 0,
     startAt |-> 0,
     account |-> [g \in Runs |-> "none"],
     isRunning |-> FALSE,
     isStopping |-> FALSE,
     stoppingSince |-> 0,
     cancelled |-> [g \in Runs |-> FALSE],
     activeAccounts |-> [a \in Accounts |-> "none"],
     counters |-> [a \in Accounts |-> 0],
     snipeMonitors |-> <<>>,
     mpc |-> [m \in Goroutines |-> "none"],
     monCancelled |-> [m \in Goroutines |-> FALSE],
     wpc |-> [w \in Goroutines |-> "none"],
     txCount |-> [w \in Goroutines |-> 0],
     grace |-> [g \in Runs |-> "none"],
     wg |-> [g \in Runs |-> "none"],
     attempts |-> {},
     polledAs |-> {},
     crashed |-> FALSE]

\* bs.mu is free: Start holds it from its first line to its return
MuFree(s) == s.startAt = 0

\* Start up to its loop, under bs.mu: an error when bs.isRunning; a new
\* context and bs.cancel, bs.isRunning = true, new statistics, every account
\* entered as active (bs.isStopping and the snipe counters are left as they are)
StartLock ==
    /\ ~service.crashed
    /\ MuFree(service)
    /\ ~service.isRunning
    /\ service.run < MaxRuns
    /\ service' = [service EXCEPT
                     !.run = @ + 1,
                     !.startAt = 1,
                     !.isRunning = TRUE,
                     !.activeAccounts = [a \in Accounts |-> "active"]]
    /\ UNCHANGED <<walletVars, orchVars, buyVars, monVars, registry, order, txn, tokens, cli, watch>>

\* SnipeMonitor.config: NewSnipeMonitor stores the pointer it is given, and
\* Start gives it &account, the address of the range variable of its loop
\* (one variable for all iterations); s.config.Name and s.config.SnipeMonitor
\* are read through it at every use
MonitorConfig(s, m) == s.account[m[1]]

\* one iteration of for accountIndex, account := range bs.config.Accounts:
\* the element is copied into account; a snipe account gets its callback and
\* its monitor (appended to bs.snipeMonitors; snipeMonitor.Start seeds the
\* state and starts monitorLoop), a direct account its accountWorker
StartAccount ==
    LET g == service.run
        a == AccountOrder[service.startAt] IN
    /\ ~service.crashed
    /\ service.startAt \in 1..Len(AccountOrder)
    /\ service' = IF service.snipe[a]
                  THEN [service EXCEPT
                          !.account[g] = a,
                          !.snipeMonitors = Append(@, <<g, a>>),
                          !.mpc[<<g, a>>] = "wait",
                          !.startAt = @ + 1]
                  ELSE [service EXCEPT
                          !.account[g] = a,
                          !.wpc[<<g, a>>] = "top",
                          !.startAt = @ + 1]
    /\ UNCHANGED <<walletVars, orchVars, buyVars, monVars, registry, order, txn, tokens, cli, watch>>

\* Start after its loop: the goroutine of wg.Wait() is started, bs.mu released
StartUnlock ==
    /\ ~service.crashed
    /\ service.startAt = Len(AccountOrder) + 1
    /\ service' = [service EXCEPT !.startAt = 0, !.wg[service.run] = "waiting"]
    /\ UNCHANGED <<walletVars, orchVars, buyVars, monVars, registry, order, txn, tokens, cli, watch>>

\* setAccountInactive as a whole: the entry is flipped if it is true; when no
\* true entry is left bs.isStopping = true and the grace goroutine is started
FlipInactive(s, name) ==
    IF s.activeAccounts[name] # "active" THEN s
    ELSE LET flipped == [s.activeAccounts EXCEPT ![name] = "inactive"] IN
         IF \E a \in Accounts : flipped[a] = "active"
         THEN [s EXCEPT !.activeAccounts = flipped]
         ELSE [s EXCEPT !.activeAccounts = flipped,
                        !.isStopping = TRUE,
                        !.stoppingSince = s.run,
                        !.grace[s.run] = "sleeping"]

\* the ceiling of an account is reached by a counter
AtCeiling(s, name, count) == s.ceiling[name] > 0 /\ count >= s.ceiling[name]

\* accountWorker, one iteration: return on ctx.Done(), on bs.isStopping, on
\* !worker.isActive; otherwise performAccountBuy, which after a sent
\* transaction counts it and at the ceiling calls setAccountInactive
AccountWorkerIteration(w, sent) ==
    LET g == w[1]
        a == w[2]
        returns == \/ service.cancelled[g]
                   \/ service.isStopping
                   \/ AtCeiling(service, a, service.txCount[w])
        counted == [service EXCEPT !.attempts = @ \cup {g}, !.txCount[w] = @ + 1] IN
    /\ ~service.crashed
    /\ MuFree(service)
    /\ service.wpc[w] = "top"
    /\ sent => (~returns /\ service.txCount[w] < MaxSent)
    /\ service' = IF returns THEN [service EXCEPT !.wpc[w] = "exited"]
                  ELSE IF ~sent THEN [service EXCEPT !.attempts = @ \cup {g}]
                  ELSE IF AtCeiling(service, a, counted.txCount[w])
                  THEN FlipInactive(counted, a)
                  ELSE counted
    /\ UNCHANGED <<walletVars, orchVars, buyVars, monVars, registry, order, txn, tokens, cli, watch>>

\* monitorLoop: case <-ticker.C (taken also when s.ctx is done, when the
\* select finds both ready)
SnipeMonitorTick(m) ==
    /\ ~service.crashed
    /\ service.mpc[m] = "wait"
    /\ service' = [service EXCEPT !.mpc[m] = "poll"]
    /\ UNCHANGED <<walletVars, orchVars, buyVars, monVars, registry, order, txn, tokens, cli, watch>>

\* monitorLoop: case <-s.ctx.Done(): return
SnipeMonitorDone(m) ==
    /\ ~service.crashed
    /\ service.mpc[m] = "wait"
    /\ service.monCancelled[m]
    /\ service' = [service EXCEPT !.mpc[m] = "exited"]
    /\ UNCHANGED <<walletVars, orchVars, buyVars, monVars, registry, order, txn, tokens, cli, watch>>

\* performSnipePurchase at the ceiling: the first monitor of bs.snipeMonitors
\* whose GetAccountName() is the account is stopped
RECURSIVE FirstMonitorOf(_, _, _)
FirstMonitorOf(s, list, name) ==
    IF list = <<>> THEN {}
    ELSE IF MonitorConfig(s, Head(list)) = name THEN {Head(list)}
    ELSE FirstMonitorOf(s, Tail(list), name)

\* performSnipePurchase(name): nothing at the ceiling; otherwise the purchase,
\* and after a sent transaction the counter of name, and at the ceiling the
\* stop of its monitor and setAccountInactive(name)
PerformSnipePurchase(s, g, name, sent) ==
    IF AtCeiling(s, name, s.counters[name]) THEN s
    ELSE LET tried == [s EXCEPT !.attempts = @ \cup {g}]
             counted == [tried EXCEPT !.counters[name] = @ + 1] IN
         IF ~sent THEN tried
         ELSE IF AtCeiling(s, name, counted.counters[name])
         THEN FlipInactive(
                [counted EXCEPT !.monCancelled =
                    [m \in Goroutines |->
                        @[m] \/ m \in FirstMonitorOf(s, s.snipeMonitors, name)]],
                name)
         ELSE counted

\* checkForNewItems, one whole poll: the catalog is fetched with the token of
\* s.config.Name; found: it holds a new character, which is put to the
\* filters of s.config.SnipeMonitor (a nil pointer when that account has no
\* monitor settings: the dereference panics) and handed to the purchase
\* callback, which buys for account.Name
SnipeMonitorPoll(m, found, sent) ==
    LET name == MonitorConfig(service, m)
        polled == [service EXCEPT !.polledAs = @ \cup {<<m[2], name>>},
                                  !.mpc[m] = "wait"] IN
    /\ ~service.crashed
    /\ service.mpc[m] = "poll"
    /\ found => MuFree(service)
    /\ sent => /\ found
               /\ service.snipe[name]
               /\ service.counters[name] < MaxSent
    /\ service' = IF ~found THEN polled
                  ELSE IF ~service.snipe[name] THEN [polled EXCEPT !.crashed = TRUE]
                  ELSE PerformSnipePurchase(polled, m[1], name, sent)
    /\ UNCHANGED <<walletVars, orchVars, buyVars, monVars, registry, order, txn, tokens, cli, watch>>

\* the goroutine of setAccountInactive after its 3 seconds: bs.isRunning = false
GraceGoroutineStop(g) ==
    /\ ~service.crashed
    /\ MuFree(service)
    /\ service.grace[g] = "sleeping"
    /\ service' = [service EXCEPT !.isRunning = FALSE, !.grace[g] = "cancel"]
    /\ UNCHANGED <<walletVars, orchVars, buyVars, monVars, registry, order, txn, tokens, cli, watch>>

\* ... and then bs.cancel(), the cancel function that bs holds by then
GraceGoroutineCancel(g) ==
    /\ ~service.crashed
    /\ service.grace[g] = "cancel"
    /\ service' = [service EXCEPT !.cancelled[service.run] = TRUE, !.grace[g] = "done"]
    /\ UNCHANGED <<walletVars, orchVars, buyVars, monVars, registry, order, txn, tokens, cli, watch>>

\* the goroutine of Start: wg.Wait() returns when the accountWorkers of its
\* run have returned (at once when there is none), then bs.isRunning = false
WaitGroupGoroutine(g) ==
    /\ ~service.crashed
    /\ MuFree(service)
    /\ service.wg[g] = "waiting"
    /\ \A a \in Accounts : service.wpc[<<g, a>>] \in {"none", "exited"}
    /\ service' = [service EXCEPT !.isRunning = FALSE, !.wg[g] = "done"]
    /\ UNCHANGED <<walletVars, orchVars, buyVars, monVars, registry, order, txn, tokens, cli, watch>>

\* Stop as a whole, under bs.mu: nothing when !bs.isRunning; otherwise
\* bs.cancel(), every monitor of bs.snipeMonitors stopped and the list
\* dropped, the map of the active accounts emptied, both flags reset
StopService ==
    /\ ~service.crashed
    /\ MuFree(service)
    /\ service.isRunning
    /\ service' = [service EXCEPT
                     !.cancelled[service.run] = TRUE,
                     !.monCancelled =
                         [m \in Goroutines |->
                             @[m] \/ \E i \in 1..Len(service.snipeMonitors) :
                                        service.snipeMonitors[i] = m],
                     !.snipeMonitors = <<>>,
                     !.activeAccounts = [a \in Accounts |-> "none"],
                     !.isRunning = FALSE,
                     !.isStopping = FALSE,
                     !.stoppingSince = 0]
    /\ UNCHANGED <<walletVars, orchVars, buyVars, monVars, registry, order, txn, tokens, cli, watch>>

NextRuns ==
    \/ StartLock
    \/ StartAccount
    \/ StartUnlock
    \/ \E w \in Goroutines, sent \in BOOLEAN : AccountWorkerIteration(w, sent)
    \/ \E m \in Goroutines : SnipeMonitorTick(m)
    \/ \E m \in Goroutines : SnipeMonitorDone(m)
    \/ \E m \in Goroutines, found \in BOOLEAN, sent \in BOOLEAN : SnipeMonitorPoll(m, found, sent)
    \/ \E g \in Runs : GraceGoroutineStop(g)
    \/ \E g \in Runs : GraceGoroutineCancel(g)
    \/ \E g \in Runs : WaitGroupGoroutine(g)
    \/ StopService

(***************************************************************************)
(* Specifications.                                                         *)
(***************************************************************************)
\* the wallet layer before any client is made: no manager, no queue
\* nothing created, every caller before its NewTONClientWithProxy
IdleRegistry ==
    [managerOf |-> [k \in ManagerKeys |-> 0],
     managersMade |-> [k \in ManagerKeys |-> 0],
     queueOf |-> [q \in RegQueueIds |-> 0],
     queuesMade |-> [q \in RegQueueIds |-> 0],
     pc |-> [c \in Callers |-> "new"],
     key |-> [c \in Callers |-> "direct"],
     seed |-> [c \in Callers |-> "seedA"],
     mgr |-> [c \in Callers |-> 0],
     queue |-> [c \in Callers |-> 0],
     raced |-> {},
     panicked |-> FALSE]

\* no request accepted or begun yet
NoOrder ==
    [accepted |-> [q \in QueueIds |-> <<>>], begun |-> [q \in QueueIds |-> <<>>],
     gaveUp |-> {}]

\* a request just taken by processQueue, for an active wallet with funds
IdleTxn ==
    [pc |-> "start", seqno |-> 0, pending |-> 0, readable |-> TRUE,
     balance |-> MinDeployAmount,
     initialSeqno |-> 0, polls |-> 0, result |-> "none",
     advanceSeen |-> FALSE, deployFailed |-> FALSE,
     deploySentAt |-> {}, refusedAt |-> {},
     quoted |-> Amount(FALSE, 0, 0), amount |-> Amount(FALSE, 0, 0), broadcast |-> {},
     own |-> "none"]

\* the token manager after InitializeTokens over a configuration with tokens
IdleTokens ==
    [config |-> [a \in Accounts |-> 1],
     cache |-> [a \in Accounts |-> 1],
     recent |-> [a \in Accounts |-> TRUE],
     ttl |-> [a \in Accounts |-> "fresh"],
     pc |-> [c \in TokCallers |-> "idle"],
     soft |-> [c \in TokCallers |-> FALSE],
     calls |-> [c \in TokCallers |-> 0],
     cooled |-> [c \in TokCallers |-> FALSE],
     done |-> [c \in TokCallers |-> NoDone],
     rpc |-> [a \in Accounts |-> "none"],
     sweep |-> "idle",
     sweeps |-> 0,
     last |-> [a \in Accounts |-> NoCall],
     pair |-> [a \in Accounts |-> NoPair]]

\* a loaded configuration of valid accounts, nothing launched
IdleCli ==
    [pc |-> "load",
     accounts |-> [a \in Accounts |-> [auth |-> TRUE, seedWords |-> 24, threads |-> 1, proxyOk |-> TRUE]],
     launched |-> {}]

IdleWallet ==
    [managers |-> {},
     queues |-> {},
     qchan |-> [q \in QueueIds |-> <<>>],
     qpc |-> [q \in QueueIds |-> "none"],
     qcur |-> [q \in QueueIds |-> 0],
     qclosed |-> [q \in QueueIds |-> FALSE],
     cpc |-> [c \in Callers |-> "new"],
     cqueue |-> [c \in Callers |-> NoQueue],
     cresultChan |-> [c \in Callers |-> "empty"],
     cresult |-> [c \in Callers |-> "none"]]

\* the buyer service as constructed (NewBuyerService), over a plain configuration
IdleOrch ==
    [cfgSnipe |-> [a \in Accounts |-> FALSE],
     cfgThreads |-> [a \in Accounts |-> 1],
     cfgMax |-> [a \in Accounts |-> 0],
     started |-> FALSE,
     isRunning |-> FALSE,
     isStopping |-> FALSE,
     ctxCancelled |-> FALSE,
     muHolder |-> "free",
     aaHolder |-> NoThread,
     activeAccounts |-> [a \in Accounts |-> "none"],
     tpc |-> [t \in Threads |-> "none"],
     txCount |-> [t \in Threads |-> 0],
     wActive |-> [t \in Threads |-> TRUE],
     snipeCount |-> [a \in Accounts |-> 0],
     monCancelled |-> [a \in Accounts |-> FALSE],
     monListed |-> [a \in Accounts |-> FALSE],
     gpc |-> "none",
     wgpc |-> "none",
     spc |-> "idle"]

\* no purchase cycle begun, empty statistics
IdleBuy ==
    [bpc |-> "idle",
     resp |-> CallError,
     calls |-> <<>>,
     refreshes |-> 0,
     statistics |-> NoStatistics,
     cycles |-> 0]

\* the monitor as constructed (NewSnipeMonitor), without filters, over an
\* empty catalog
IdleMon ==
    [monConfig |-> [WordFilter |-> <<>>, SupplyRange |-> NoRange, PriceRange |-> NoRange],
     srvCollections |-> {},
     srvCharacters |-> {},
     knownCollections |-> {},
     knownCharacters |-> {},
     mpc |-> "idle",
     phase |-> "none",
     pollTodo |-> <<>>,
     charTodo |-> <<>>,
     monCtxDone |-> FALSE,
     intentCount |-> [k \in Keys |-> 0],
     startPresent |-> {},
     startFetched |-> {}]

\* the wallet layer alone: package state at start
InitWallet ==
    /\ registry = IdleRegistry
    /\ order = NoOrder
    /\ txn = IdleTxn
    /\ tokens = IdleTokens
    /\ cli = IdleCli
    /\ managers = {}
    /\ queues = {}
    /\ qchan = [q \in QueueIds |-> <<>>]
    /\ qpc = [q \in QueueIds |-> "none"]
    /\ qcur = [q \in QueueIds |-> 0]
    /\ qclosed = [q \in QueueIds |-> FALSE]
    /\ cpc = [c \in Callers |-> "new"]
    /\ cqueue = [c \in Callers |-> NoQueue]
    /\ cresultChan = [c \in Callers |-> "empty"]
    /\ cresult = [c \in Callers |-> "none"]
    /\ cfgSnipe = IdleOrch.cfgSnipe
    /\ cfgThreads = IdleOrch.cfgThreads
    /\ cfgMax = IdleOrch.cfgMax
    /\ started = IdleOrch.started
    /\ isRunning = IdleOrch.isRunning
    /\ isStopping = IdleOrch.isStopping
    /\ ctxCancelled = IdleOrch.ctxCancelled
    /\ muHolder = IdleOrch.muHolder
    /\ aaHolder = IdleOrch.aaHolder
    /\ activeAccounts = IdleOrch.activeAccounts
    /\ tpc = IdleOrch.tpc
    /\ txCount = IdleOrch.txCount
    /\ wActive = IdleOrch.wActive
    /\ snipeCount = IdleOrch.snipeCount
    /\ monCancelled = IdleOrch.monCancelled
    /\ monListed = IdleOrch.monListed
    /\ gpc = IdleOrch.gpc
    /\ wgpc = IdleOrch.wgpc
    /\ spc = IdleOrch.spc
    /\ bpc = IdleBuy.bpc
    /\ resp = IdleBuy.resp
    /\ calls = IdleBuy.calls
    /\ refreshes = IdleBuy.refreshes
    /\ statistics = IdleBuy.statistics
    /\ cycles = IdleBuy.cycles
    /\ monConfig = IdleMon.monConfig
    /\ srvCollections = IdleMon.srvCollections
    /\ srvCharacters = IdleMon.srvCharacters
    /\ knownCollections = IdleMon.knownCollections
    /\ knownCharacters = IdleMon.knownCharacters
    /\ mpc = IdleMon.mpc
    /\ phase = IdleMon.phase
    /\ pollTodo = IdleMon.pollTodo
    /\ charTodo = IdleMon.charTodo
    /\ monCtxDone = IdleMon.monCtxDone
    /\ intentCount = IdleMon.intentCount
    /\ startPresent = IdleMon.startPresent
    /\ startFetched = IdleMon.startFetched
    /\ watch = NoWatch
    /\ service = NoService

\* the buyer service alone, constructed over some configuration
InitOrch ==
    /\ registry = IdleRegistry
    /\ order = NoOrder
    /\ txn = IdleTxn
    /\ tokens = IdleTokens
    /\ cli = IdleCli
    /\ cfgSnipe \in [Accounts -> BOOLEAN]
    /\ cfgThreads \in [Accounts -> 1..MaxThreads]
    /\ cfgMax \in [Accounts -> 0..MaxCeiling]
    /\ \A a \in Accounts : cfgSnipe[a] => cfgThreads[a] = 1
    /\ started = FALSE
    /\ isRunning = FALSE
    /\ isStopping = FALSE
    /\ ctxCancelled = FALSE
    /\ muHolder = "free"
    /\ aaHolder = NoThread
    /\ activeAccounts = [a \in Accounts |-> "none"]
    /\ tpc = [t \in Threads |-> "none"]
    /\ txCount = [t \in Threads |-> 0]
    /\ wActive = [t \in Threads |-> TRUE]
    /\ snipeCount = [a \in Accounts |-> 0]
    /\ monCancelled = [a \in Accounts |-> FALSE]
    /\ monListed = [a \in Accounts |-> FALSE]
    /\ gpc = "none"
    /\ wgpc = "none"
    /\ spc = "idle"
    /\ managers = IdleWallet.managers
    /\ queues = IdleWallet.queues
    /\ qchan = IdleWallet.qchan
    /\ qpc = IdleWallet.qpc
    /\ qcur = IdleWallet.qcur
    /\ qclosed = IdleWallet.qclosed
    /\ cpc = IdleWallet.cpc
    /\ cqueue = IdleWallet.cqueue
    /\ cresultChan = IdleWallet.cresultChan
    /\ cresult = IdleWallet.cresult
    /\ bpc = IdleBuy.bpc
    /\ resp = IdleBuy.resp
    /\ calls = IdleBuy.calls
    /\ refreshes = IdleBuy.refreshes
    /\ statistics = IdleBuy.statistics
    /\ cycles = IdleBuy.cycles
    /\ monConfig = IdleMon.monConfig
    /\ srvCollections = IdleMon.srvCollections
    /\ srvCharacters = IdleMon.srvCharacters
    /\ knownCollections = IdleMon.knownCollections
    /\ knownCharacters = IdleMon.knownCharacters
    /\ mpc = IdleMon.mpc
    /\ phase = IdleMon.phase
    /\ pollTodo = IdleMon.pollTodo
    /\ charTodo = IdleMon.charTodo
    /\ monCtxDone = IdleMon.monCtxDone
    /\ intentCount = IdleMon.intentCount
    /\ startPresent = IdleMon.startPresent
    /\ startFetched = IdleMon.startFetched
    /\ watch = NoWatch
    /\ service = NoService

\* one worker alone, before its first purchase cycle
InitBuy ==
    /\ registry = IdleRegistry
    /\ order = NoOrder
    /\ txn = IdleTxn
    /\ tokens = IdleTokens
    /\ cli = IdleCli
    /\ bpc = "idle"
    /\ resp = CallError
    /\ calls = <<>>
    /\ refreshes = 0
    /\ statistics = NoStatistics
    /\ cycles = 0
    /\ managers = IdleWallet.managers
    /\ queues = IdleWallet.queues
    /\ qchan = IdleWallet.qchan
    /\ qpc = IdleWallet.qpc
    /\ qcur = IdleWallet.qcur
    /\ qclosed = IdleWallet.qclosed
    /\ cpc = IdleWallet.cpc
    /\ cqueue = IdleWallet.cqueue
    /\ cresultChan = IdleWallet.cresultChan
    /\ cresult = IdleWallet.cresult
    /\ cfgSnipe = IdleOrch.cfgSnipe
    /\ cfgThreads = IdleOrch.cfgThreads
    /\ cfgMax = IdleOrch.cfgMax
    /\ started = IdleOrch.started
    /\ isRunning = IdleOrch.isRunning
    /\ isStopping = IdleOrch.isStopping
    /\ ctxCancelled = IdleOrch.ctxCancelled
    /\ muHolder = IdleOrch.muHolder
    /\ aaHolder = IdleOrch.aaHolder
    /\ activeAccounts = IdleOrch.activeAccounts
    /\ tpc = IdleOrch.tpc
    /\ txCount = IdleOrch.txCount
    /\ wActive = IdleOrch.wActive
    /\ snipeCount = IdleOrch.snipeCount
    /\ monCancelled = IdleOrch.monCancelled
    /\ monListed = IdleOrch.monListed
    /\ gpc = IdleOrch.gpc
    /\ wgpc = IdleOrch.wgpc
    /\ spc = IdleOrch.spc
    /\ monConfig = IdleMon.monConfig
    /\ srvCollections = IdleMon.srvCollections
    /\ srvCharacters = IdleMon.srvCharacters
    /\ knownCollections = IdleMon.knownCollections
    /\ knownCharacters = IdleMon.knownCharacters
    /\ mpc = IdleMon.mpc
    /\ phase = IdleMon.phase
    /\ pollTodo = IdleMon.pollTodo
    /\ charTodo = IdleMon.charTodo
    /\ monCtxDone = IdleMon.monCtxDone
    /\ intentCount = IdleMon.intentCount
    /\ startPresent = IdleMon.startPresent
    /\ startFetched = IdleMon.startFetched
    /\ watch = NoWatch
    /\ service = NoService

\* the wallet registry alone: nothing created, no caller has asked yet
InitRegistry ==
    /\ managers = IdleWallet.managers
    /\ queues = IdleWallet.queues
    /\ qchan = IdleWallet.qchan
    /\ qpc = IdleWallet.qpc
    /\ qcur = IdleWallet.qcur
    /\ qclosed = IdleWallet.qclosed
    /\ cpc = IdleWallet.cpc
    /\ cqueue = IdleWallet.cqueue
    /\ cresultChan = IdleWallet.cresultChan
    /\ cresult = IdleWallet.cresult
    /\ cfgSnipe = IdleOrch.cfgSnipe
    /\ cfgThreads = IdleOrch.cfgThreads
    /\ cfgMax = IdleOrch.cfgMax
    /\ started = IdleOrch.started
    /\ isRunning = IdleOrch.isRunning
    /\ isStopping = IdleOrch.isStopping
    /\ ctxCancelled = IdleOrch.ctxCancelled
    /\ muHolder = IdleOrch.muHolder
    /\ aaHolder = IdleOrch.aaHolder
    /\ activeAccounts = IdleOrch.activeAccounts
    /\ tpc = IdleOrch.tpc
    /\ txCount = IdleOrch.txCount
    /\ wActive = IdleOrch.wActive
    /\ snipeCount = IdleOrch.snipeCount
    /\ monCancelled = IdleOrch.monCancelled
    /\ monListed = IdleOrch.monListed
    /\ gpc = IdleOrch.gpc
    /\ wgpc = IdleOrch.wgpc
    /\ spc = IdleOrch.spc
    /\ bpc = IdleBuy.bpc
    /\ resp = IdleBuy.resp
    /\ calls = IdleBuy.calls
    /\ refreshes = IdleBuy.refreshes
    /\ statistics = IdleBuy.statistics
    /\ cycles = IdleBuy.cycles
    /\ monConfig = IdleMon.monConfig
    /\ srvCollections = IdleMon.srvCollections
    /\ srvCharacters = IdleMon.srvCharacters
    /\ knownCollections = IdleMon.knownCollections
    /\ knownCharacters = IdleMon.knownCharacters
    /\ mpc = IdleMon.mpc
    /\ phase = IdleMon.phase
    /\ pollTodo = IdleMon.pollTodo
    /\ charTodo = IdleMon.charTodo
    /\ monCtxDone = IdleMon.monCtxDone
    /\ intentCount = IdleMon.intentCount
    /\ startPresent = IdleMon.startPresent
    /\ startFetched = IdleMon.startFetched
    /\ registry = IdleRegistry
    /\ order = NoOrder
    /\ txn = IdleTxn
    /\ tokens = IdleTokens
    /\ cli = IdleCli
    /\ watch = NoWatch
    /\ service = NoService

\* the program before initializeConfig, over some configuration file
InitCli ==
    /\ managers = IdleWallet.managers
    /\ queues = IdleWallet.queues
    /\ qchan = IdleWallet.qchan
    /\ qpc = IdleWallet.qpc
    /\ qcur = IdleWallet.qcur
    /\ qclosed = IdleWallet.qclosed
    /\ cpc = IdleWallet.cpc
    /\ cqueue = IdleWallet.cqueue
    /\ cresultChan = IdleWallet.cresultChan
    /\ cresult = IdleWallet.cresult
    /\ cfgSnipe = IdleOrch.cfgSnipe
    /\ cfgThreads = IdleOrch.cfgThreads
    /\ cfgMax = IdleOrch.cfgMax
    /\ started = IdleOrch.started
    /\ isRunning = IdleOrch.isRunning
    /\ isStopping = IdleOrch.isStopping
    /\ ctxCancelled = IdleOrch.ctxCancelled
    /\ muHolder = IdleOrch.muHolder
    /\ aaHolder = IdleOrch.aaHolder
    /\ activeAccounts = IdleOrch.activeAccounts
    /\ tpc = IdleOrch.tpc
    /\ txCount = IdleOrch.txCount
    /\ wActive = IdleOrch.wActive
    /\ snipeCount = IdleOrch.snipeCount
    /\ monCancelled = IdleOrch.monCancelled
    /\ monListed = IdleOrch.monListed
    /\ gpc = IdleOrch.gpc
    /\ wgpc = IdleOrch.wgpc
    /\ spc = IdleOrch.spc
    /\ bpc = IdleBuy.bpc
    /\ resp = IdleBuy.resp
    /\ calls = IdleBuy.calls
    /\ refreshes = IdleBuy.refreshes
    /\ statistics = IdleBuy.statistics
    /\ cycles = IdleBuy.cycles
    /\ monConfig = IdleMon.monConfig
    /\ srvCollections = IdleMon.srvCollections
    /\ srvCharacters = IdleMon.srvCharacters
    /\ knownCollections = IdleMon.knownCollections
    /\ knownCharacters = IdleMon.knownCharacters
    /\ mpc = IdleMon.mpc
    /\ phase = IdleMon.phase
    /\ pollTodo = IdleMon.pollTodo
    /\ charTodo = IdleMon.charTodo
    /\ monCtxDone = IdleMon.monCtxDone
    /\ intentCount = IdleMon.intentCount
    /\ startPresent = IdleMon.startPresent
    /\ startFetched = IdleMon.startFetched
    /\ registry = IdleRegistry
    /\ order = NoOrder
    /\ txn = IdleTxn
    /\ tokens = IdleTokens
    /\ cli \in [pc : {"load"}, accounts : [Accounts -> AccountConfigs], launched : {{}}]
    /\ watch = NoWatch
    /\ service = NoService

\* one request at the head of processTransaction: a wallet that is active or not yet deployed, with or without the balance for a deployment
InitTxn ==
    /\ managers = IdleWallet.managers
    /\ queues = IdleWallet.queues
    /\ qchan = IdleWallet.qchan
    /\ qpc = IdleWallet.qpc
    /\ qcur = IdleWallet.qcur
    /\ qclosed = IdleWallet.qclosed
    /\ cpc = IdleWallet.cpc
    /\ cqueue = IdleWallet.cqueue
    /\ cresultChan = IdleWallet.cresultChan
    /\ cresult = IdleWallet.cresult
    /\ cfgSnipe = IdleOrch.cfgSnipe
    /\ cfgThreads = IdleOrch.cfgThreads
    /\ cfgMax = IdleOrch.cfgMax
    /\ started = IdleOrch.started
    /\ isRunning = IdleOrch.isRunning
    /\ isStopping = IdleOrch.isStopping
    /\ ctxCancelled = IdleOrch.ctxCancelled
    /\ muHolder = IdleOrch.muHolder
    /\ aaHolder = IdleOrch.aaHolder
    /\ activeAccounts = IdleOrch.activeAccounts
    /\ tpc = IdleOrch.tpc
    /\ txCount = IdleOrch.txCount
    /\ wActive = IdleOrch.wActive
    /\ snipeCount = IdleOrch.snipeCount
    /\ monCancelled = IdleOrch.monCancelled
    /\ monListed = IdleOrch.monListed
    /\ gpc = IdleOrch.gpc
    /\ wgpc = IdleOrch.wgpc
    /\ spc = IdleOrch.spc
    /\ bpc = IdleBuy.bpc
    /\ resp = IdleBuy.resp
    /\ calls = IdleBuy.calls
    /\ refreshes = IdleBuy.refreshes
    /\ statistics = IdleBuy.statistics
    /\ cycles = IdleBuy.cycles
    /\ monConfig = IdleMon.monConfig
    /\ srvCollections = IdleMon.srvCollections
    /\ srvCharacters = IdleMon.srvCharacters
    /\ knownCollections = IdleMon.knownCollections
    /\ knownCharacters = IdleMon.knownCharacters
    /\ mpc = IdleMon.mpc
    /\ phase = IdleMon.phase
    /\ pollTodo = IdleMon.pollTodo
    /\ charTodo = IdleMon.charTodo
    /\ monCtxDone = IdleMon.monCtxDone
    /\ intentCount = IdleMon.intentCount
    /\ startPresent = IdleMon.startPresent
    /\ startFetched = IdleMon.startFetched
    /\ registry = IdleRegistry
    /\ order = NoOrder
    /\ txn \in [pc : {"order"}, seqno : 0..1, pending : {0}, readable : BOOLEAN,
                     balance : Balances,
                     initialSeqno : {0}, polls : {0}, result : {"none"},
                     advanceSeen : {FALSE}, deployFailed : {FALSE},
                     deploySentAt : {{}}, refusedAt : {{}},
                     quoted : {Amount(FALSE, 0, 0)}, amount : {Amount(FALSE, 0, 0)},
                     broadcast : {{}}, own : {"none"}]
    /\ txn.readable \/ txn.seqno = 0
    /\ tokens = IdleTokens
    /\ cli = IdleCli
    /\ watch = NoWatch
    /\ service = NoService

\* the token manager after InitializeTokens: an account has a configured token, which is then cached, or none
InitTokens ==
    /\ managers = IdleWallet.managers
    /\ queues = IdleWallet.queues
    /\ qchan = IdleWallet.qchan
    /\ qpc = IdleWallet.qpc
    /\ qcur = IdleWallet.qcur
    /\ qclosed = IdleWallet.qclosed
    /\ cpc = IdleWallet.cpc
    /\ cqueue = IdleWallet.cqueue
    /\ cresultChan = IdleWallet.cresultChan
    /\ cresult = IdleWallet.cresult
    /\ cfgSnipe = IdleOrch.cfgSnipe
    /\ cfgThreads = IdleOrch.cfgThreads
    /\ cfgMax = IdleOrch.cfgMax
    /\ started = IdleOrch.started
    /\ isRunning = IdleOrch.isRunning
    /\ isStopping = IdleOrch.isStopping
    /\ ctxCancelled = IdleOrch.ctxCancelled
    /\ muHolder = IdleOrch.muHolder
    /\ aaHolder = IdleOrch.aaHolder
    /\ activeAccounts = IdleOrch.activeAccounts
    /\ tpc = IdleOrch.tpc
    /\ txCount = IdleOrch.txCount
    /\ wActive = IdleOrch.wActive
    /\ snipeCount = IdleOrch.snipeCount
    /\ monCancelled = IdleOrch.monCancelled
    /\ monListed = IdleOrch.monListed
    /\ gpc = IdleOrch.gpc
    /\ wgpc = IdleOrch.wgpc
    /\ spc = IdleOrch.spc
    /\ bpc = IdleBuy.bpc
    /\ resp = IdleBuy.resp
    /\ calls = IdleBuy.calls
    /\ refreshes = IdleBuy.refreshes
    /\ statistics = IdleBuy.statistics
    /\ cycles = IdleBuy.cycles
    /\ monConfig = IdleMon.monConfig
    /\ srvCollections = IdleMon.srvCollections
    /\ srvCharacters = IdleMon.srvCharacters
    /\ knownCollections = IdleMon.knownCollections
    /\ knownCharacters = IdleMon.knownCharacters
    /\ mpc = IdleMon.mpc
    /\ phase = IdleMon.phase
    /\ pollTodo = IdleMon.pollTodo
    /\ charTodo = IdleMon.charTodo
    /\ monCtxDone = IdleMon.monCtxDone
    /\ intentCount = IdleMon.intentCount
    /\ startPresent = IdleMon.startPresent
    /\ startFetched = IdleMon.startFetched
    /\ registry = IdleRegistry
    /\ order = NoOrder
    /\ txn = IdleTxn
    /\ \E cfg \in [Accounts -> {0, 1}] :
              tokens = [IdleTokens EXCEPT !.config = cfg, !.cache = cfg,
                                          !.recent = [a \in Accounts |-> cfg[a] # 0]]
    /\ cli = IdleCli
    /\ watch = NoWatch
    /\ service = NoService

\* one monitor alone, constructed over some filter configuration, the catalog
\* still empty
InitMon ==
    /\ registry = IdleRegistry
    /\ order = NoOrder
    /\ txn = IdleTxn
    /\ tokens = IdleTokens
    /\ cli = IdleCli
    /\ monConfig \in MonitorConfigs
    /\ srvCollections = {}
    /\ srvCharacters = {}
    /\ knownCollections = {}
    /\ knownCharacters = {}
    /\ mpc = "idle"
    /\ phase = "none"
    /\ pollTodo = <<>>
    /\ charTodo = <<>>
    /\ monCtxDone = FALSE
    /\ intentCount = [k \in Keys |-> 0]
    /\ startPresent = {}
    /\ startFetched = {}
    /\ managers = IdleWallet.managers
    /\ queues = IdleWallet.queues
    /\ qchan = IdleWallet.qchan
    /\ qpc = IdleWallet.qpc
    /\ qcur = IdleWallet.qcur
    /\ qclosed = IdleWallet.qclosed
    /\ cpc = IdleWallet.cpc
    /\ cqueue = IdleWallet.cqueue
    /\ cresultChan = IdleWallet.cresultChan
    /\ cresult = IdleWallet.cresult
    /\ cfgSnipe = IdleOrch.cfgSnipe
    /\ cfgThreads = IdleOrch.cfgThreads
    /\ cfgMax = IdleOrch.cfgMax
    /\ started = IdleOrch.started
    /\ isRunning = IdleOrch.isRunning
    /\ isStopping = IdleOrch.isStopping
    /\ ctxCancelled = IdleOrch.ctxCancelled
    /\ muHolder = IdleOrch.muHolder
    /\ aaHolder = IdleOrch.aaHolder
    /\ activeAccounts = IdleOrch.activeAccounts
    /\ tpc = IdleOrch.tpc
    /\ txCount = IdleOrch.txCount
    /\ wActive = IdleOrch.wActive
    /\ snipeCount = IdleOrch.snipeCount
    /\ monCancelled = IdleOrch.monCancelled
    /\ monListed = IdleOrch.monListed
    /\ gpc = IdleOrch.gpc
    /\ wgpc = IdleOrch.wgpc
    /\ spc = IdleOrch.spc
    /\ bpc = IdleBuy.bpc
    /\ resp = IdleBuy.resp
    /\ calls = IdleBuy.calls
    /\ refreshes = IdleBuy.refreshes
    /\ statistics = IdleBuy.statistics
    /\ cycles = IdleBuy.cycles
    /\ watch = NoWatch
    /\ service = NoService

\* the service as NewBuyerService leaves it, for a configuration of two
\* accounts, each with or without a snipe monitor and a ceiling
InitRuns ==
    /\ managers = IdleWallet.managers
    /\ queues = IdleWallet.queues
    /\ qchan = IdleWallet.qchan
    /\ qpc = IdleWallet.qpc
    /\ qcur = IdleWallet.qcur
    /\ qclosed = IdleWallet.qclosed
    /\ cpc = IdleWallet.cpc
    /\ cqueue = IdleWallet.cqueue
    /\ cresultChan = IdleWallet.cresultChan
    /\ cresult = IdleWallet.cresult
    /\ cfgSnipe = IdleOrch.cfgSnipe
    /\ cfgThreads = IdleOrch.cfgThreads
    /\ cfgMax = IdleOrch.cfgMax
    /\ started = IdleOrch.started
    /\ isRunning = IdleOrch.isRunning
    /\ isStopping = IdleOrch.isStopping
    /\ ctxCancelled = IdleOrch.ctxCancelled
    /\ muHolder = IdleOrch.muHolder
    /\ aaHolder = IdleOrch.aaHolder
    /\ activeAccounts = IdleOrch.activeAccounts
    /\ tpc = IdleOrch.tpc
    /\ txCount = IdleOrch.txCount
    /\ wActive = IdleOrch.wActive
    /\ snipeCount = IdleOrch.snipeCount
    /\ monCancelled = IdleOrch.monCancelled
    /\ monListed = IdleOrch.monListed
    /\ gpc = IdleOrch.gpc
    /\ wgpc = IdleOrch.wgpc
    /\ spc = IdleOrch.spc
    /\ bpc = IdleBuy.bpc
    /\ resp = IdleBuy.resp
    /\ calls = IdleBuy.calls
    /\ refreshes = IdleBuy.refreshes
    /\ statistics = IdleBuy.statistics
    /\ cycles = IdleBuy.cycles
    /\ monConfig = IdleMon.monConfig
    /\ srvCollections = IdleMon.srvCollections
    /\ srvCharacters = IdleMon.srvCharacters
    /\ knownCollections = IdleMon.knownCollections
    /\ knownCharacters = IdleMon.knownCharacters
    /\ mpc = IdleMon.mpc
    /\ phase = IdleMon.phase
    /\ pollTodo = IdleMon.pollTodo
    /\ charTodo = IdleMon.charTodo
    /\ monCtxDone = IdleMon.monCtxDone
    /\ intentCount = IdleMon.intentCount
    /\ startPresent = IdleMon.startPresent
    /\ startFetched = IdleMon.startFetched
    /\ registry = IdleRegistry
    /\ order = NoOrder
    /\ txn = IdleTxn
    /\ tokens = IdleTokens
    /\ cli = IdleCli
    /\ watch = NoWatch
    /\ \E snipe \in [Accounts -> BOOLEAN], ceiling \in [Accounts -> 0..MaxSent] :
          service = [NoService EXCEPT !.snipe = snipe, !.ceiling = ceiling]

SpecBuy == InitBuy /\ [][NextBuy]_vars

SpecMon == InitMon /\ [][NextMon]_vars

SpecOrch == InitOrch /\ [][NextOrch]_vars

SpecWallet == InitWallet /\ [][NextWallet]_vars

SpecTokens == InitTokens /\ [][NextTokens]_vars

SpecTxn == InitTxn /\ [][NextTxn]_vars

SpecCli == InitCli /\ [][NextCli]_vars

SpecRegistry == InitRegistry /\ [][NextRegistry]_vars

SpecRuns == InitRuns /\ [][NextRuns]_vars

\* the queues whose transfer from wallet w is in flight: from the start of
\* processTransaction until its confirmation or its timeout
InFlight(w) == {q \in queues : WalletOf(q) = w /\ qpc[q] \in {"processing", "polling"}}

\* C1: for any wallet secret, no two transfers from the same wallet are in
\* flight at the same time, whichever workers or accounts submitted them.
C1_AtMostOneInFlightPerWallet ==
    \A w \in SeedPhrases : Cardinality(InFlight(w)) <= 1

\* a caller whose request sits in the channel of a queue whose processQueue
\* goroutine has returned: nothing will ever send on its ResultChan
Stranded(c) ==
    /\ cpc[c] = "waiting"
    /\ cresultChan[c] = "empty"
    /\ qpc[cqueue[c]] = "exited"
    /\ \E i \in 1..Len(qchan[cqueue[c]]) : qchan[cqueue[c]][i] = c

\* C5: every call of AddTransaction (Submit) eventually returns a result:
\* no caller is ever left blocked with nothing that could unblock it,
\* whether the queue is running or has been closed.
C5_SubmitNeverHangs == \A c \in Callers : ~Stranded(c)

\* the call of AddTransaction by c has returned without its request ever
\* having entered the channel
TimedOut(c) ==
    /\ cpc[c] = "done"
    /\ \A i \in 1..Len(order.accepted[cqueue[c]]) : order.accepted[cqueue[c]][i] # c

\* C26: a request that could not be enqueued within the submission timeout
\* because the queue stayed full is answered with a failure result
C26_SaturatedSubmitFails ==
    \A c \in Callers : TimedOut(c) => cresult[c] = "fail"

\* C26, its case: a caller has given up on a queue that is still full
C26_Witness ==
    \E c \in Callers : TimedOut(c) /\ Len(qchan[cqueue[c]]) = QueueCap


\* C16: within one queue the transactions are executed strictly in the order
\* in which they were accepted, and none begins before the one before it has
\* produced its result.
C16_InAcceptanceOrderOneAtATime ==
    \A q \in QueueIds :
        LET a == order.accepted[q]
            b == order.begun[q] IN
        /\ Len(b) <= Len(a)
        /\ \A i \in 1..Len(b) : b[i] = a[i]
        /\ \A i \in 1..(Len(b) - 1) : cresultChan[b[i]] # "empty" \/ cpc[b[i]] = "done"

\* the second request of a queue is being processed while a third one waits
\* in the channel
C16_Witness ==
    \E q \in QueueIds :
        /\ Len(order.begun[q]) = 2
        /\ qpc[q] = "processing"
        /\ Len(qchan[q]) = 1

(***************************************************************************)
(* One processTransaction: properties.                                     *)
(***************************************************************************)
\* C17: the result of a payment has Success = true exactly when, after the
\* broadcast, one of at most 60 polls read a seqno greater than the seqno read
\* before the broadcast; when no poll of the 60 sees it advanced the result is
\* a failure.
C17_SuccessIffAdvanceSeen ==
    /\ txn.polls <= 60
    /\ txn.advanceSeen => txn.pc = "done"
    /\ txn.pc = "done" => (txn.result = "ok" <=> txn.advanceSeen)
    /\ txn.pc = "done" <=> txn.result # "none"

\* the seqno was seen advanced at the last poll of the loop
C17_Witness == txn.result = "ok" /\ txn.polls = ConfirmPolls

\* C18: when a deployment of the wallet tried for a payment fails (balance
\* below the minimum, or the deployment is not confirmed in time), the result
\* of that payment is a failure.
C18_ActivationFailureFailsThePayment ==
    (txn.pc = "done" /\ txn.deployFailed) => txn.result = "fail"

\* C25: the activation self-transfer is broadcast only at a balance of at
\* least 50,000,000 nanotons; at a smaller balance the deployment is refused
\* and nothing is broadcast for it
C25_ActivationOnlyWithMinimumReserve ==
    /\ \A b \in txn.deploySentAt : b >= 50000000
    /\ \A b \in txn.refusedAt : b < 50000000

\* C25, its case: a self-transfer was sent at exactly the minimum, and after
\* the balance fell one nanoton below it a deployment was refused
C25_Witness ==
    /\ 50000000 \in txn.deploySentAt
    /\ 49999999 \in txn.refusedAt

\* C27: the request submitted to the queue has the quoted amount plus
\* 250,000,000 nanotons (25,300,000,000 for a quote of 25,050,000,000), and
\* every broadcast of the payment carries exactly the amount of the request
C27_SubmittedAmountIsQuotePlusBuffer ==
    txn.pc # "order" =>
        /\ ~txn.amount.neg /\ txn.amount.lo \in 0..(Giga - 1)
        /\ (txn.amount.hi - txn.quoted.hi) * Giga + (txn.amount.lo - txn.quoted.lo)
               = 250000000
        /\ txn.quoted = Amount(FALSE, 25, 50000000) =>
               txn.amount = Amount(FALSE, 25, 300000000)
        /\ \A sentAmount \in txn.broadcast :
               sentAmount = <<0, txn.amount.hi, txn.amount.lo>>

\* C27, its case: the payment for the quote of 25,050,000,000 was broadcast
C27_Witness ==
    /\ txn.quoted = Amount(FALSE, 25, 50000000)
    /\ txn.broadcast # {}

(***************************************************************************)
(* Buyer service: properties.                                              *)
(***************************************************************************)
\* no goroutine of the account is between a payment and the end of the
\* bookkeeping that follows it
Settled(a) == \A t \in Launched(a) : tpc[t] \notin {"count", "setInactive", "setStopping"}

\* C2: an account with a ceiling N > 0 is inactive exactly when N successful
\* payments have been made for it, the payments of all its workers counted
\* together
C2_FlipsExactlyAtCeiling ==
    \A a \in Accounts :
        (cfgMax[a] > 0 /\ activeAccounts[a] # "none" /\ Settled(a))
            => (activeAccounts[a] = "inactive" <=> Payments(a) >= cfgMax[a])

\* C3: once the flip of an account to inactive is complete, no worker and no
\* monitor of that account starts another purchase attempt
C3_NoAttemptAfterFlip ==
    [][\A t \in Threads :
          (activeAccounts[t[1]] = "inactive" /\ aaHolder = NoThread /\ tpc[t] # "buy")
              => tpc'[t] # "buy"]_vars

\* cancellation has reached a goroutine: a worker has exited or its context is
\* cancelled, a monitor's own context is cancelled
CancellationReached(t) ==
    IF IsMonitor(t) THEN monCancelled[t[1]]
    ELSE tpc[t] = "exited" \/ ctxCancelled

\* C8: when Stop() has returned (and no automatic stop is under way),
\* cancellation has reached every worker and every monitor that Start launched
C8_StopReachesEveryGoroutine ==
    (spc = "returned" /\ gpc \in {"none", "done"})
        => \A a \in Accounts : \A t \in Launched(a) : CancellationReached(t)

\* the service has come to a full stop
FullStop ==
    /\ ctxCancelled
    /\ ~isRunning
    /\ \A a \in Accounts : ~cfgSnipe[a] => \A t \in WorkersOf(a) : tpc[t] = "exited"

\* C10: after the last active account flipped inactive the service does not
\* come to rest before the full stop: the stopping flag is set, the cancel is
\* issued, every worker has exited and the service is not running
C10_AutoStopCompletes ==
    (started /\ (\A a \in Accounts : activeAccounts[a] = "inactive") /\ ~ENABLED NextOrch)
        => (isStopping /\ FullStop)

(***************************************************************************)
(* Purchase cycle: properties.                                             *)
(***************************************************************************)
\* C4: a finished purchase cycle has made at most one token refresh and at
\* most one retry of the purchase call (two calls in all), also when the
\* retried call was again an authorization failure
C4_OneRefreshOneRetry ==
    bpc = "done" => (refreshes <= 1 /\ Len(calls) <= 2)

\* the first purchase cycle of a service has ended; its first call was answered
\* with 401 and a call after it with a success that is no token error
UnauthorizedThenSuccess ==
    /\ bpc = "done"
    /\ cycles = 1
    /\ Len(calls) >= 2
    /\ ~calls[1].err /\ calls[1].status = 401
    /\ ~calls[2].err /\ calls[2].status = 200 /\ calls[2].body # "invalid_auth_token"

\* C24: 401 on the first call and success on the call after the refresh: the
\* cycle has made exactly one refresh and exactly one retried call, and the
\* statistics show one success and no failure
C24_OneRefreshOneRetryOneSuccess ==
    UnauthorizedThenSuccess =>
        /\ refreshes = 1
        /\ Len(calls) = 2
        /\ statistics.SuccessRequests = 1
        /\ statistics.FailedRequests = 0

\* C24, its case: such a cycle has ended, the retried call having placed an order
C24_Witness ==
    UnauthorizedThenSuccess /\ calls[2].body = "order"

(***************************************************************************)
(* Snipe monitor: properties.                                              *)
(***************************************************************************)
\* the monitor is in checkCollectionForNewCharacters and looks at character k
LooksAt(k) == mpc = "poll" /\ phase = "newCharacters" /\ Head(charTodo) = k

\* the character passes the word filter of its collection and the other filters
MatchesAll(k) == MatchesWordFilter(Title(k[1])) /\ MatchesFilters(k)

C7_NoIntentForPresentAtStart ==
    \A k \in startPresent : intentCount[k] = 0

\* C7, amended: no purchase intent is ever raised for a sub-item whose details
\* Start() fetched, even if it matches all filters
C7_NoIntentForFetchedAtStart ==
    \A k \in startFetched : intentCount[k] = 0

\* C7, its case: a poll after Start() looks at a sub-item that Start() fetched
\* and that matches all filters
C7_Witness ==
    \E k \in startFetched : LooksAt(k) /\ MatchesAll(k)

\* C9: once Stop() has been called, the monitor raises no further intent
C9_NoIntentAfterStop ==
    [][monCtxDone => intentCount' = intentCount]_vars

\* C21: when the catalog fetch hit a credential failure, was retried after the
\* refresh, and no collection was known, the retried response becomes the
\* baseline: every id of it is recorded as known (and so is every character
\* of the detail responses received), and that cycle raises no intent
C21_RefreshedCatalogBecomesBaseline ==
    watch.cycle = "reseed" =>
        /\ watch.baseline \subseteq knownCollections
        /\ watch.baselineChars \subseteq knownCharacters
        /\ watch.raised = {}

\* C21, its case: such a cycle has ended, and its responses held a character
\* that matches all filters
C21_Witness ==
    /\ watch.cycle = "reseed"
    /\ mpc = "wait"
    /\ \E k \in watch.baselineChars : MatchesAll(k)

\* the keyword filter of the claim: an empty list matches everything,
\* otherwise the title contains one of the words, letter case ignored
PassesKeywords(k) ==
    \/ monConfig.WordFilter = <<>>
    \/ \E i \in 1..Len(monConfig.WordFilter) :
          Contains(ToLower(Title(k[1])), ToLower(monConfig.WordFilter[i]))

\* the range filters of the claim: both ends of a configured range are allowed
PassesRanges(k) ==
    /\ monConfig.SupplyRange.set =>
          monConfig.SupplyRange.Min <= Supply(k) /\ Supply(k) <= monConfig.SupplyRange.Max
    /\ monConfig.PriceRange.set =>
          monConfig.PriceRange.Min <= Price(k) /\ Price(k) <= monConfig.PriceRange.Max

\* a poll cycle (not a reseed) has come to its end
PollEnded == mpc = "wait" /\ watch.cycle = "poll"

\* C22: a newly seen sub-item that fails a configured filter raises no intent,
\* and its id is in the known set at the end of that poll cycle
C22_RejectedIsKnownAtEndOfCycle ==
    PollEnded =>
        \A k \in watch.seen :
            ~(PassesKeywords(k) /\ PassesRanges(k)) =>
                k \notin watch.raised /\ k \in knownCharacters

\* C23: a newly seen sub-item raises an intent exactly if it passes every
\* configured filter: a keyword in the title (case-insensitive, the empty list
\* matching everything), supply and price within their inclusive ranges
C23_IntentIffAllFiltersPass ==
    /\ \A k \in watch.raised : PassesKeywords(k) /\ PassesRanges(k)
    /\ PollEnded =>
          \A k \in watch.seen :
              PassesKeywords(k) /\ PassesRanges(k) => k \in watch.raised

\* C23, its case: a cycle has ended that raised an intent for a sub-item whose
\* price lies on the end of the configured range and whose title holds a
\* keyword in another letter case, and raised none for another new sub-item
C23_Witness ==
    /\ PollEnded
    /\ monConfig.WordFilter # <<>>
    /\ \E k \in watch.raised :
          monConfig.PriceRange.set /\ Price(k) = monConfig.PriceRange.Min
    /\ watch.seen \ watch.raised # {}

\* C28: a filter (keyword, supply, price) is evaluated for a not yet known
\* sub-item only after its id has been marked known
C28_MarkedKnownBeforeAnyFilter == watch.early = {}

\* C29: no goroutine holds the lock of one of the shared structures
\* (credential cache, known-id sets, active-account map, wallet registry)
\* while it acquires or holds the lock of another
C29_NoLockSpansTwoStructures == watch.nested = {}


(***************************************************************************)
(* Wallet registry: properties.                                            *)
(***************************************************************************)
\* C11: when the chain client of an account cannot be constructed (the
\* connection setup fails) the process does not crash: the failure is
\* reported and only that account is skipped.
C11_ConstructionFailureDoesNotCrash == ~registry.panicked

\* callers whose NewTONClientWithProxy returned a client for queue q
Holders(q) ==
    {c \in Callers : registry.pc[c] = "done" /\ <<registry.key[c], registry.seed[c]>> = q}

\* C15: get-or-create is idempotent: every caller asking for the same
\* (seed phrase, network profile), concurrent callers included, gets the same
\* queue instance, and the manager of a profile and the queue of a key are
\* created at most once.
C15_GetOrCreateIdempotent ==
    /\ \A k \in ManagerKeys : registry.managersMade[k] <= 1
    /\ \A q \in RegQueueIds :
         /\ registry.queuesMade[q] <= 1
         /\ \A c \in Holders(q) : registry.queue[c] = registry.queueOf[q] /\ registry.queue[c] = 1

\* two callers hold the queue of one key, and both had passed the read-locked
\* look-up before it was created: one of them met it at the second look-up
C15_Witness ==
    \E q \in RegQueueIds :
        \E c1 \in Holders(q), c2 \in Holders(q) :
            c1 # c2 /\ c2 \in registry.raced /\ registry.queuesMade[q] = 1


(***************************************************************************)
(* Start of the program: properties.                                       *)
(***************************************************************************)
\* C12: a configuration error of one account keeps only that account from
\* starting: once the start-up is over (the program ended or the accounts
\* were launched) every account whose own configuration is in order runs.
C12_OnlyTheMisconfiguredAccountIsRefused ==
    cli.pc \in {"ended", "running"} =>
        \A a \in Accounts :
            (ValidAccount(cli.accounts[a]) /\ cli.accounts[a].proxyOk) => a \in cli.launched


C14_FailedRefreshFallsBack ==
    \A c \in TokCallers :
        tokens.done[c].failed =>
            /\ tokens.done[c].prev # 0 =>
                 (~tokens.done[c].ret.err /\ tokens.done[c].ret.value = tokens.done[c].prev)
            /\ tokens.done[c].ret.err => tokens.done[c].prev = 0

\* C19: GetCachedToken never waits for a network call: no caller of it is
\* held up while an authorization is in progress, for its account or another.
C19_GetNeverWaitsForAuthorization ==
    \A c \in TokCallers : ~(tokens.pc[c] = "get" /\ Locked(tokens))

\* C20: PreventiveRefresh starts the refreshes without waiting for any
\* refresh: it is never held up while an authorization is in progress.
C20_SweepNeverWaitsForARefresh == ~(tokens.sweep = "lock" /\ Locked(tokens))

\* C30: the cache map is written only under a lock that excludes every other
\* reader and writer: no goroutine is about to assign tm.tokens while another
\* goroutine is inside the lock too
C30_CacheWrittenOnlyUnderExclusiveLock ==
    \A c, d \in TokCallers :
        (c # d /\ tokens.pc[c] = "reading" /\ RewritesEntry(tokens, AccountOfCaller(c)))
            => tokens.pc[d] # "reading"


(***************************************************************************)
(* Purchase cycle: the token error inside a 200 answer, and the counters.  *)
(***************************************************************************)
\* the first purchase cycle of a service has ended; its first call was answered
\* with 200 and a body that is a structured invalid-token error, and the call
\* after the refresh with a success that is no token error
InvalidTokenBodyThenSuccess ==
    /\ bpc = "done"
    /\ cycles = 1
    /\ Len(calls) >= 2
    /\ ~calls[1].err /\ calls[1].status = 200 /\ calls[1].body = "invalid_auth_token"
    /\ ~calls[2].err /\ calls[2].status = 200 /\ calls[2].body # "invalid_auth_token"

\* C38: a first call answered with 200 and an invalid-token body, followed by
\* a successful retried call after the refresh, is counted as one success and
\* no failure, as for 401 and 403
C38_TokenErrorBodyThenSuccessCountsNoFailure ==
    InvalidTokenBodyThenSuccess =>
        /\ statistics.SuccessRequests = 1
        /\ statistics.FailedRequests = 0

\* C40: in every snapshot of the statistics the successes and the failures
\* together are at most the total of the requests
C40_SuccessPlusFailedAtMostTotal ==
    statistics.SuccessRequests + statistics.FailedRequests <= statistics.TotalRequests

(***************************************************************************)
(* Transaction queue: a request that was given up at the full channel.     *)
(***************************************************************************)
\* the requests a queue holds or has held: those in its channel, the one it
\* is processing, and those whose processTransaction has begun
InChannel(q) == {qchan[q][i] : i \in 1..Len(qchan[q])}
Begun(q) == {order.begun[q][i] : i \in 1..Len(order.begun[q])}
Accepted(q) == {order.accepted[q][i] : i \in 1..Len(order.accepted[q])}

\* C39: a request whose AddTransaction returned the failure of the saturation
\* timeout was never accepted into the queue, is not in its channel, and its
\* processTransaction (and so its broadcast) never begins
C39_GivenUpRequestNeverProcessed ==
    \A c \in order.gaveUp :
        /\ cresult[c] = "fail"
        /\ \A q \in QueueIds :
              /\ c \notin Accepted(q)
              /\ c \notin InChannel(q)
              /\ c \notin Begun(q)
              /\ qcur[q] # c

\* C39, its case: a caller gave up at the full channel, and the queue has
\* since worked through the two requests that filled it
C39_Witness ==
    \E c \in order.gaveUp :
        /\ Len(order.begun[cqueue[c]]) = QueueCap
        /\ qchan[cqueue[c]] = <<>>
        /\ qpc[cqueue[c]] = "idle"

(***************************************************************************)
(* One processTransaction: whose message advanced the seqno, and what is   *)
(* sent during the confirmation loop.                                      *)
(***************************************************************************)
\* C32: the result of a payment is a success only if the transfer of that
\* payment itself was included in the chain; the seqno advanced by another
\* message of the wallet (an earlier transfer, the deployment self-transfer)
\* does not make it a success
C32_SuccessOnlyForOwnTransfer ==
    txn.result = "ok" => txn.own = "landed"

\* the messages the wallet has sent so far: those included and those pending
MessagesSent(t) == t.seqno + t.pending

\* C37: while the confirmation loop of a payment runs, nothing more is sent
\* from the wallet; a deployment self-transfer is sent before the transfer of
\* the payment only
C37_NoBroadcastWhilePolling ==
    [][txn.pc = "poll" => MessagesSent(txn') = MessagesSent(txn)]_vars

(***************************************************************************)
(* Buyer service over several runs: properties.                            *)
(***************************************************************************)
\* a monitor that polls: it is inside a poll, or waits for its ticker with
\* its context not cancelled
Poller(m) ==
    \/ service.mpc[m] = "poll"
    \/ service.mpc[m] = "wait" /\ ~service.monCancelled[m]

\* C31: at any time at most one poller exists for a snipe account, whatever
\* calls of Start and Stop were made, so no two poll cycles of one account
\* run at the same time
C31_OnePollerPerAccount ==
    \A a \in Accounts :
        Cardinality({m \in Goroutines : m[2] = a /\ Poller(m)}) <= 1

\* C35: every poll of a monitor, and every purchase it gives, is made with
\* the configuration of the account the monitor was launched for, whatever
\* accounts Start went on to after it
C35_MonitorKeepsItsAccount ==
    /\ ~service.crashed
    /\ \A p \in service.polledAs : p[1] = p[2]

\* the runs before the present one have ended: their workers have returned
\* and the goroutine of an automatic stop has done its work
EarlierRunsEnded ==
    \A g \in Runs :
        g < service.run =>
            /\ service.grace[g] \in {"none", "done"}
            /\ \A a \in Accounts : service.wpc[<<g, a>>] \in {"none", "exited"}

\* C36: when a Start that follows an ended run has returned, a stopping flag
\* that is set was set during the run of that Start: the flag of an earlier
\* run, ended by the automatic stop, does not keep the new workers from
\* their purchase attempts
C36_StoppingFlagOfEarlierRunNotInEffect ==
    (service.startAt = 0 /\ service.run > 1 /\ EarlierRunsEnded /\ service.isStopping) =>
        service.stoppingSince = service.run

(***************************************************************************)
(* Buyer service: the ceiling over all workers, and the locks of Stop.     *)
(***************************************************************************)
\* C33: for an account with a ceiling N > 0 the successful payments made for
\* it during the run, by all its workers together, never exceed N
C33_PaymentsNeverExceedCeiling ==
    \A a \in Accounts : cfgMax[a] > 0 => Payments(a) <= cfgMax[a]

\* Stop holds bs.mu and waits for bs.activeAccountsMu, while the goroutine
\* that holds bs.activeAccountsMu inside setAccountInactive waits for bs.mu
StopAndFlipBlocked ==
    /\ spc = "resetAccounts"
    /\ muHolder = "stop"
    /\ aaHolder # NoThread
    /\ tpc[aaHolder] = "setStopping"

\* C34: Stop() always returns: Stop and a goroutine that marks its account
\* inactive are never each waiting for the lock the other holds
C34_StopNeverBlockedByFlip == ~StopAndFlipBlocked

====
